---------------------------- MODULE Spec2Model ----------------------------
(***************************************************************************)
(* A model of the N1-Engine analysis engine                                *)
(* (src/pee/core/analysis.py, AnalysisEngine).                             *)
(*                                                                         *)
(* Time.  A pd.Timestamp is an integer count of ticks, TicksPerDay ticks   *)
(* to the calendar day, so that a timestamp has a calendar day             *)
(* (t \div TicksPerDay) and a time of day (t % TicksPerDay).               *)
(*                                                                         *)
(* Numbers.  A float is one of three records:                              *)
(*   [num, den]   the rational num/den in lowest terms, den > 0;           *)
(*   [sgn, sq]    the real sgn * sqrt(sq), sq a rational >= 0 (what        *)
(*                np.sqrt and a division by a square root produce);        *)
(*   NaN          np.nan.                                                  *)
(* Python's None is the record None.  Measured values are integers.  A     *)
(* float has MantissaBits significant bits: the sum of a series of values  *)
(* is rounded to them after each addition, as the float sum of the code    *)
(* is; the arithmetic on it afterwards is exact.  The values 50 and 55 of  *)
(* most inputs have exact sums.                                            *)
(***************************************************************************)
EXTENDS Integers, Sequences, FiniteSets, TLC

VARIABLES
    metrics,            \* the DataFrame: [columns |-> set of names, rows |-> sequence of rows]
    start_date,         \* the anchor pd.Timestamp, in ticks
    baseline_days,      \* requested baseline window size, in days
    intervention_days,  \* requested intervention window size, in days
    pc,                 \* "call" before the engine runs; "return" / "raise" after
    result,             \* the returned dictionary, or the raised exception
    scipy_build,        \* the SciPy build of the process, where a run fixes it
    metrics_map,        \* analyze_multiple_metrics: the dict, a sequence of [key, df]
    results,            \* analyze_multiple_metrics: the results dict built so far
    global_warnings,    \* analyze_multiple_metrics: its warnings list
    faults,             \* the library calls that raise in this run, where a run injects them
    shuffled,           \* the frame of a second call: the rows of metrics in another order
    result_again,       \* what the second call returns
    report,             \* generate_html_report: what it returned, and the page it wrote
    display,            \* display_results: the text it set, or what it raised
    settings,           \* settings_manager.settings, the dict of the global instance
    settings_file,      \* settings.json: None if there is none, else its content
    saved,              \* the last save_settings call: the dict it dumped, and whether it wrote
    reloaded,           \* a new SettingsManager over the same file: its dict, and whether it read
    call,               \* the call made last on the global instance, with its arguments
    calls,              \* the engine calls of concurrent threads: where each is, and its result
    group1,             \* bootstrap_ci: the first group, a sequence of values
    group2,             \* bootstrap_ci: the second group
    n_bootstraps,       \* bootstrap_ci: the resample count
    diffs,              \* bootstrap_ci: the mean differences of the resamples drawn so far
    series,             \* calculate_trend: the window, a sequence of [date, value] points
    db,                 \* DataManager: whether self.db is set, a session handed in or kept
    store,              \* the metrics table: the committed MetricEntry rows, in id order
    session,            \* the rows the session has inserted and not committed
    export_file,        \* the file export_to_csv wrote last: None, or its columns and rows
    last_call,          \* the DataManager call made last: its arguments, and the store before it
    interventions,      \* the interventions table: the committed rows, in id order
    selected,           \* the id of the row selected in the interventions list, or None
    today,              \* date.today(), a day of the timeline
    gui_call,           \* the handler that ran last, with what the user entered
    tabs,               \* WorkspaceWidget.intervention_tabs: which tabs are enabled
    analysis_tab,       \* the AnalysisWidget: its fields and the state of its controls
    metric_entries      \* the metrics table of the workspace: the rows of each intervention

engine_vars == <<metrics, start_date, baseline_days, intervention_days, pc, result>>
multi_vars == <<scipy_build, metrics_map, results, global_warnings>>
repeat_vars == <<shuffled, result_again>>
render_vars == <<report, display>>
settings_vars == <<settings, settings_file, saved, reloaded, call>>
bootstrap_vars == <<group1, group2, n_bootstraps, diffs>>
data_vars == <<db, store, session, export_file, last_call>>
gui_vars == <<interventions, selected, today, gui_call, tabs, analysis_tab, metric_entries>>
app_vars == <<bootstrap_vars, series, data_vars, gui_vars>>
extra_vars == <<faults, repeat_vars, render_vars, settings_vars, calls, app_vars>>
vars == <<engine_vars, multi_vars, extra_vars>>

-----------------------------------------------------------------------------
(* Bounds of the model.                                                    *)

TicksPerDay == 2
MaxDays == 7
MaxRows == 4
MaxMetrics == 4
MantissaBits == 10

(* Program constants.                                                      *)

MIN_BASELINE_DAYS == 7
MIN_INTERVENTION_DAYS == 7
MIN_DATA_POINTS == 3
MAX_SAFE_METRICS == 3

-----------------------------------------------------------------------------
(* Floats.                                                                 *)

NaN == [nan |-> TRUE]
None == [none |-> TRUE]

Abs(i) == IF i < 0 THEN -i ELSE i
Sign(i) == IF i < 0 THEN -1 ELSE IF i = 0 THEN 0 ELSE 1

RECURSIVE GCD(_, _)
GCD(a, b) == IF b = 0 THEN a ELSE GCD(b, a % b)

\* The rational n/d (d # 0) in lowest terms with a positive denominator.
Rat(n, d) ==
    LET g == GCD(Abs(n), Abs(d))
        s == IF d < 0 THEN -1 ELSE 1
    IN  [num |-> (s * n) \div g, den |-> (s * d) \div g]

Int2F(i) == [num |-> i, den |-> 1]
Zero == Int2F(0)
One == Int2F(1)

\* Factors are cancelled before multiplying, so that the products stay small.
RatAdd(a, b) ==
    LET g == GCD(a.den, b.den)
    IN  Rat(a.num * (b.den \div g) + b.num * (a.den \div g), (a.den \div g) * b.den)
RatNeg(a) == [num |-> -a.num, den |-> a.den]
RatSub(a, b) == RatAdd(a, RatNeg(b))
RatMul(a, b) ==
    LET g1 == GCD(Abs(a.num), b.den)
        g2 == GCD(Abs(b.num), a.den)
    IN  Rat((a.num \div g1) * (b.num \div g2), (a.den \div g2) * (b.den \div g1))
\* a / b, b non-zero.
RatDiv(a, b) == RatMul(a, Rat(b.den, b.num))

\* np.sqrt of a rational >= 0, and x**2 of such a root.
Sqrt(q) == [sgn |-> Sign(q.num), sq |-> q]
Square(s) == s.sq
\* rational / root, the root non-zero.
DivByRoot(q, s) ==
    [sgn |-> Sign(q.num) * s.sgn, sq |-> RatDiv(RatMul(q, q), s.sq)]

IsNaN(x) == x = NaN
\* x == 0 and x != 0 on floats (False / True on NaN, as in IEEE 754).
IsZero(x) ==
    IF "num" \in DOMAIN x THEN x.num = 0
    ELSE IF "sgn" \in DOMAIN x THEN x.sgn = 0
    ELSE FALSE
SignOf(x) ==
    IF "num" \in DOMAIN x THEN Sign(x.num) ELSE x.sgn

-----------------------------------------------------------------------------
(* Timestamps.                                                             *)

\* timedelta(days=d)
timedelta(d) == d * TicksPerDay
\* Timedelta.days: the whole days of a non-negative difference.
days(delta) == delta \div TicksPerDay
\* Timestamp.strftime("%Y-%m-%d"): the calendar day, the time of day dropped.
strftime(t) == t \div TicksPerDay

-----------------------------------------------------------------------------
(* pandas Series/DataFrame operations used by the engine.                  *)

HasNameColumn(m) == "metric_name" \in m.columns

\* metrics['metric_name'].unique()
unique_metrics(m) == {m.rows[k].metric_name : k \in DOMAIN m.rows}

\* Variant with a closed upper bound: a row dated hi is kept.
DateFilter_ClosedEnd(rows, lo, hi) ==
    SelectSeq(rows, LAMBDA r : r.date >= lo /\ r.date <= hi)

\* metrics[(metrics['date'] >= lo) & (metrics['date'] < hi)]
DateFilter(rows, lo, hi) ==
    SelectSeq(rows, LAMBDA r : r.date >= lo /\ r.date < hi)

\* .dropna(subset=['value'])
dropna(rows) == SelectSeq(rows, LAMBDA r : ~IsNaN(r.value))

\* df['value'] and df['date']
ValueColumn(df) == [k \in DOMAIN df |-> df[k].value]
DateColumn(df) == [k \in DOMAIN df |-> df[k].date]

RECURSIVE SumF(_)
SumF(s) == IF s = <<>> THEN Zero ELSE RatAdd(Head(s), SumF(Tail(s)))

RECURSIVE SeqMax(_)
SeqMax(s) ==
    IF Len(s) = 1 THEN s[1]
    ELSE LET m == SeqMax(Tail(s)) IN IF s[1] > m THEN s[1] ELSE m

RECURSIVE SeqMin(_)
SeqMin(s) ==
    IF Len(s) = 1 THEN s[1]
    ELSE LET m == SeqMin(Tail(s)) IN IF s[1] < m THEN s[1] ELSE m

\* 2^n, and the first integer magnitude a float cannot hold exactly any more.
MaxExact == 2 ^ MantissaBits


\* The gap between neighbouring floats at the magnitude of the integer n
\* (|n| below MaxExact squared).
Ulp(n) ==
    CHOOSE u \in {2 ^ k : k \in 0..MantissaBits} :
       /\ Abs(n) < MaxExact * u
       /\ u = 1 \/ Abs(n) >= MaxExact * (u \div 2)

\* The float nearest to the integer n, ties to the even significand.
RoundToFloat(n) ==
    LET u == Ulp(n)
        q == Abs(n) \div u
        r == Abs(n) % u
        up == IF 2 * r = u THEN q % 2 = 1 ELSE 2 * r > u
        a == IF up THEN (q + 1) * u ELSE q * u
    IN  IF n < 0 THEN 0 - a ELSE a

\* The float nearest to a number x that is held as a rational: x itself,
\* unless it is an integer.
RoundSum(x) == IF x.den = 1 THEN Int2F(RoundToFloat(x.num)) ELSE x

\* a + b on floats (the sum x is a value, worked out once).
FloatAdd(a, b) == CHOOSE r \in {RoundSum(x) : x \in {RatAdd(a, b)}} : TRUE

\* The float sum of the first k values of a series, added up in the order of
\* its rows.
RECURSIVE FloatSumTo(_, _)
FloatSumTo(s, k) ==
    IF k = 0 THEN Zero ELSE FloatAdd(FloatSumTo(s, k - 1), s[k])

FloatSum(s) == FloatSumTo(s, Len(s))


\* Series.mean(): NaN on an empty series.
mean(data) ==
    IF Len(data) = 0 THEN NaN ELSE RatDiv(FloatSum(data), Int2F(Len(data)))

\* The sum of the squared deviations from the mean.
SumSqDev(data) ==
    LET m == mean(data)
    IN  SumF([k \in DOMAIN data |->
              RatMul(RatSub(data[k], m), RatSub(data[k], m))])

\* Series.std(ddof=1): NaN with fewer than 2 values.
std(data) ==
    IF Len(data) < 2 THEN NaN
    ELSE Sqrt(RatDiv(SumSqDev(data), Int2F(Len(data) - 1)))

-----------------------------------------------------------------------------
(* The steps of calculate_baseline_vs_intervention.                        *)

baseline_start(sd, bd) == sd - timedelta(bd)
intervention_end(sd, id) == sd + timedelta(id)

baseline_df(m, sd, bd) ==
    dropna(DateFilter(m.rows, baseline_start(sd, bd), sd))


intervention_df(m, sd, id) ==
    dropna(DateFilter(m.rows, sd, intervention_end(sd, id)))

\* The mixed-metric input check.
\* Variant of the check that tolerates two identities.
MixedMetrics_MoreThanTwo(m) == HasNameColumn(m) /\ Cardinality(unique_metrics(m)) > 2

MixedMetrics(m) == HasNameColumn(m) /\ Cardinality(unique_metrics(m)) > 1

\* Variant of the gate that also rejects exactly MIN_DATA_POINTS samples.
InsufficientData_AtMost(n1, n2) == n1 <= MIN_DATA_POINTS \/ n2 <= MIN_DATA_POINTS

\* The data-point gate.
InsufficientData(n1, n2) == n1 < MIN_DATA_POINTS \/ n2 < MIN_DATA_POINTS

\* Variant of the error dictionary that also carries a warnings list.
ErrorResult_WithWarnings(n1, n2) ==
    [error |-> [text |-> "Insufficient data points", minimum |-> MIN_DATA_POINTS],
     baseline_count |-> n1,
     intervention_count |-> n2,
     warnings |-> <<>>]

ErrorResult(n1, n2) ==
    [error |-> [text |-> "Insufficient data points", minimum |-> MIN_DATA_POINTS],
     baseline_count |-> n1,
     intervention_count |-> n2]

\* Variant of the span that counts the whole days between, without the + 1.
Span_Between(df) == days(SeqMax(DateColumn(df)) - SeqMin(DateColumn(df)))

\* (df['date'].max() - df['date'].min()).days + 1
Span(df) == days(SeqMax(DateColumn(df)) - SeqMin(DateColumn(df))) + 1

BaselineSpanWarning(df) ==
    IF df # <<>> /\ Span(df) < MIN_BASELINE_DAYS
    THEN <<[text |-> "Insufficient baseline duration",
            days |-> Span(df), recommended |-> MIN_BASELINE_DAYS]>>
    ELSE <<>>

InterventionSpanWarning(df) ==
    IF df # <<>> /\ Span(df) < MIN_INTERVENTION_DAYS
    THEN <<[text |-> "Insufficient intervention duration",
            days |-> Span(df), recommended |-> MIN_INTERVENTION_DAYS]>>
    ELSE <<>>

\* Variant that also warns when the two requested sizes are equal.
PowerWarning_OrEqual(bd, id) ==
    IF id <= bd
    THEN <<[text |-> "Intervention duration is shorter than baseline. Power may be reduced.",
            intervention_days |-> id, baseline_days |-> bd]>>
    ELSE <<>>

PowerWarning(bd, id) ==
    IF id < bd
    THEN <<[text |-> "Intervention duration is shorter than baseline. Power may be reduced.",
            intervention_days |-> id, baseline_days |-> bd]>>
    ELSE <<>>

\* baseline_variance / intervention_variance: 0 if np.isnan(std) else std
VarianceOrZero(s) == IF IsNaN(s) THEN Zero ELSE s

ZeroVariance(std_b, std_i) ==
    IsZero(VarianceOrZero(std_b)) /\ IsZero(VarianceOrZero(std_i))

ZeroVarianceWarning(std_b, std_i) ==
    IF ZeroVariance(std_b, std_i)
    THEN <<[text |-> "Zero variance in both baseline and intervention data."]>>
    ELSE <<>>

\* Variant with the operands swapped: baseline minus intervention.
mean_diff_Swapped(mean_b, mean_i) == RatSub(mean_b, mean_i)

mean_diff(mean_b, mean_i) == RatSub(mean_i, mean_b)

\* Pooled standard deviation (the stds are not NaN past the gate).
pooled_std(n1, n2, std_b, std_i) ==
    IF n1 + n2 - 2 > 0
    THEN Sqrt(RatDiv(RatAdd(RatMul(Int2F(n1 - 1), Square(std_b)),
                            RatMul(Int2F(n2 - 1), Square(std_i))),
                     Int2F(n1 + n2 - 2)))
    ELSE Zero

\* Variant without the guard: the float division by zero gives inf or nan.
cohens_d_Unguarded(md, ps) ==
    IF ~IsZero(ps) THEN DivByRoot(md, ps)
    ELSE IF IsZero(md) THEN NaN
    ELSE [inf |-> Sign(md.num)]

cohens_d(md, ps) == IF ~IsZero(ps) THEN DivByRoot(md, ps) ELSE Sqrt(Zero)

-----------------------------------------------------------------------------
(* The two hypothesis tests (scipy.stats).  A p-value needs the            *)
(* distribution function of the statistic, which is left symbolic: the     *)
(* record of the arguments that determine it.                              *)

\* scipy.stats.ttest_ind(x, y, equal_var=False), at least one variance non-zero.
ttest_ind(x, y) ==
    LET vx == RatDiv(Square(std(x)), Int2F(Len(x)))
        vy == RatDiv(Square(std(y)), Int2F(Len(y)))
        se2 == RatAdd(vx, vy)
        t == DivByRoot(RatSub(mean(x), mean(y)), Sqrt(se2))
        df == RatDiv(RatMul(se2, se2),
                     RatAdd(RatDiv(RatMul(vx, vx), Int2F(Len(x) - 1)),
                            RatDiv(RatMul(vy, vy), Int2F(Len(y) - 1))))
    IN  [statistic |-> t,
         p_value |-> [two_sided_p |-> "t", statistic |-> t, df |-> df]]

\* Variant without the equal-means case: zero variance is always undefined.
t_test_AlwaysUndefined(std_b, std_i, md, bdata, idata) ==
    IF ZeroVariance(std_b, std_i)
    THEN [statistic |-> NaN, p_value |-> NaN]
    ELSE ttest_ind(idata, bdata)

\* The Welch branch of the engine, with its zero-variance special cases.
t_test(std_b, std_i, md, bdata, idata) ==
    IF ZeroVariance(std_b, std_i)
    THEN IF IsZero(md)
         THEN [statistic |-> Sqrt(Zero), p_value |-> One]
         ELSE [statistic |-> NaN, p_value |-> NaN]
    ELSE ttest_ind(idata, bdata)

\* a < b on rationals.
RatLess(a, b) == a.num * b.den < b.num * a.den

\* The U statistic of x against y: the pairs with x > y, ties counted a half.
UStatistic(x, y) ==
    LET pairs == (DOMAIN x) \X (DOMAIN y)
        wins == Cardinality({p \in pairs : RatLess(y[p[2]], x[p[1]])})
        ties == Cardinality({p \in pairs : x[p[1]] = y[p[2]]})
    IN  Rat(2 * wins + ties, 2)

\* The groups of equal values of a sample, each with its size: what the tie
\* correction of the p-value is computed from.
TieGroups(s) ==
    { [value |-> v, size |-> Cardinality({j \in DOMAIN s : s[j] = v})] :
         v \in {s[k] : k \in DOMAIN s} }

AllIdentical(x, y) ==
    \A a \in DOMAIN x : (\A b \in DOMAIN x : x[a] = x[b]) /\ (\A b \in DOMAIN y : x[a] = y[b])

\* SciPy before 1.7 raises ValueError("All numbers are identical in
\* mannwhitneyu") on identical data; later versions return U = n1*n2/2.
ScipyBuilds == {"raises_on_identical", "returns_on_identical"}

\* except Exception as e, around mannwhitneyu: NaN fields and a warning.
mann_whitney_failed(e) ==
    [statistic |-> NaN, p_value |-> NaN,
     warnings |-> <<[text |-> "Mann-Whitney U test failed", e |-> e]>>]

\* scipy.stats.mannwhitneyu(x, y, alternative='two-sided') inside its try/except:
\* a raise becomes NaN fields and a warning.
mann_whitney_u(x, y, scipy) ==
    IF AllIdentical(x, y) /\ scipy = "raises_on_identical"
    THEN mann_whitney_failed("All numbers are identical in mannwhitneyu")
    ELSE LET u == UStatistic(x, y)
         IN  [statistic |-> u,
              p_value |-> [two_sided_p |-> "mannwhitneyu", statistic |-> u,
                           n1 |-> Len(x), n2 |-> Len(y),
                           ties |-> TieGroups(x \o y)],
              warnings |-> <<>>]

\* Variant that passes NaN through to the caller.
FloatOrNone_KeepNaN(v) == v

\* float(v) if v is not None and not np.isnan(v) else None
FloatOrNone(v) == IF v # None /\ ~IsNaN(v) THEN v ELSE None

\* float(std) if not np.isnan(std) else 0.0
StdOrZero(s) == IF ~IsNaN(s) THEN s ELSE Sqrt(Zero)

\* The local variables of the engine once both windows passed the gate, up to
\* and including the Welch test: the warnings so far, the statistics, the test.
Locals(bdf, idf, bd, id) ==
    LET baseline_data == ValueColumn(bdf)
        intervention_data == ValueColumn(idf)
        mean_baseline == mean(baseline_data)
        std_baseline == std(baseline_data)
        mean_intervention == mean(intervention_data)
        std_intervention == std(intervention_data)
        md == mean_diff(mean_baseline, mean_intervention)
        n1 == Len(baseline_data)
        n2 == Len(intervention_data)
    IN  [warnings |-> BaselineSpanWarning(bdf) \o InterventionSpanWarning(idf)
                      \o PowerWarning(bd, id)
                      \o ZeroVarianceWarning(std_baseline, std_intervention),
         n1 |-> n1,
         n2 |-> n2,
         mean_baseline |-> mean_baseline,
         std_baseline |-> std_baseline,
         mean_intervention |-> mean_intervention,
         std_intervention |-> std_intervention,
         mean_diff |-> md,
         cohens_d |-> cohens_d(md, pooled_std(n1, n2, std_baseline, std_intervention)),
         t |-> t_test(std_baseline, std_intervention, md,
                      baseline_data, intervention_data)]

\* Variant labelling the baseline window with its exclusive end, the anchor.
\* Variant of the handler that reports a failed test as "no effect", silently.
t_test_failed_Silent(L, e) ==
    [L EXCEPT !.t = [statistic |-> Sqrt(Zero), p_value |-> One]]

\* except Exception as e, around the Welch branch: a warning and NaN fields.
t_test_failed(L, e) ==
    [L EXCEPT !.warnings = Append(@, [text |-> "T-test failed", e |-> e]),
              !.t = [statistic |-> NaN, p_value |-> NaN]]

\* Variant labelling the baseline window with its exclusive end, the anchor.
baseline_window_ExclusiveEnd(sd, bd, L) ==
    [start |-> strftime(baseline_start(sd, bd)),
     end |-> strftime(sd),
     count |-> L.n1,
     mean |-> L.mean_baseline,
     std |-> StdOrZero(L.std_baseline)]

baseline_window(sd, bd, L) ==
    [start |-> strftime(baseline_start(sd, bd)),
     end |-> strftime(sd - timedelta(1)),
     count |-> L.n1,
     mean |-> L.mean_baseline,
     std |-> StdOrZero(L.std_baseline)]

\* Variant labelling the intervention window with its exclusive end.
intervention_window_ExclusiveEnd(sd, id, L) ==
    [start |-> strftime(sd),
     end |-> strftime(intervention_end(sd, id)),
     count |-> L.n2,
     mean |-> L.mean_intervention,
     std |-> StdOrZero(L.std_intervention)]

intervention_window(sd, id, L) ==
    [start |-> strftime(sd),
     end |-> strftime(intervention_end(sd, id) - timedelta(1)),
     count |-> L.n2,
     mean |-> L.mean_intervention,
     std |-> StdOrZero(L.std_intervention)]

\* The returned dictionary: L the locals, mw the outcome of the Mann-Whitney test.
FullResult(L, mw, sd, bd, id) ==
    [baseline_window |-> baseline_window(sd, bd, L),
     intervention_window |-> intervention_window(sd, id, L),
     analysis |->
        [mean_difference |-> L.mean_diff,
         cohens_d |-> L.cohens_d,
         t_test |-> [statistic |-> FloatOrNone(L.t.statistic),
                     p_value |-> FloatOrNone(L.t.p_value)],
         mann_whitney_u |-> [statistic |-> FloatOrNone(mw.statistic),
                             p_value |-> FloatOrNone(mw.p_value)]],
     warnings |-> L.warnings \o mw.warnings]

\* What the mixed-metric check raises.
ValueError(m) ==
    [raised |-> "ValueError",
     text |-> "AnalysisEngine expects a single metric.",
     found |-> Cardinality(unique_metrics(m))]

\* What indexing a frame by a column it lacks raises.
KeyError(column) == [raised |-> "KeyError", text |-> column]

\* The library calls of the engine, and what an injected failure raises.
LibraryCalls == {"ttest_ind", "mannwhitneyu"}
LibraryError == "raised by the library"

\* The engine as a function of its arguments: what a call on (m, sd, bd, id)
\* does under each SciPy build, [pc |-> "return" or "raise", result |-> ...],
\* when the library calls named in failing raise.
OutcomesUnder(m, sd, bd, id, failing) ==
    IF "date" \notin m.columns
    THEN [scipy \in ScipyBuilds |-> [pc |-> "raise", result |-> KeyError("date")]]
    ELSE IF MixedMetrics(m)
    THEN [scipy \in ScipyBuilds |-> [pc |-> "raise", result |-> ValueError(m)]]
    ELSE IF "value" \notin m.columns
    THEN [scipy \in ScipyBuilds |-> [pc |-> "raise", result |-> KeyError("value")]]
    ELSE LET bdf == baseline_df(m, sd, bd)
             idf == intervention_df(m, sd, id)
         IN  IF InsufficientData(Len(bdf), Len(idf))
             THEN [scipy \in ScipyBuilds |->
                      [pc |-> "return", result |-> ErrorResult(Len(bdf), Len(idf))]]
             ELSE \* the locals are computed once and then read, as in the code
                  CHOOSE outcome \in
                    {[scipy \in ScipyBuilds |->
                        [pc |-> "return",
                         result |->
                            FullResult(
                                IF /\ "ttest_ind" \in failing
                                   /\ ~ZeroVariance(L0.std_baseline, L0.std_intervention)
                                THEN t_test_failed(L0, LibraryError)
                                ELSE L0,
                                IF "mannwhitneyu" \in failing
                                THEN mann_whitney_failed(LibraryError)
                                ELSE mann_whitney_u(ValueColumn(idf), ValueColumn(bdf), scipy),
                                sd, bd, id)]]
                     : L0 \in {Locals(bdf, idf, bd, id)}} : TRUE

\* The engine when the library works.
Outcomes(m, sd, bd, id) == OutcomesUnder(m, sd, bd, id, {})

-----------------------------------------------------------------------------
(* The inputs the engine is run on.  The timeline holds the days           *)
(* 0 .. LastDay; the anchor lies on day AnchorDay, at any time of day, so  *)
(* that a window of MaxDays days fits on either side with a day to spare.  *)

TimesOfDay == 0..(TicksPerDay - 1)
AnchorDay == MaxDays + 1
LastDay == 2 * MaxDays + 1
WindowSizes == 1..MaxDays
Values == {50, 55}
Names == {"Metric A", "Metric B"}
Cells == {NaN} \cup {Int2F(v) : v \in Values}

Frame(cols, rows) == [columns |-> cols, rows |-> rows]

\* The engine is called on frame m with anchor sd and window sizes bd, id.
Input(m, sd, bd, id) ==
    /\ metrics = m
    /\ start_date = sd
    /\ baseline_days = bd
    /\ intervention_days = id

\* One valued row a day on the n days from day a on: the first row at time of
\* day tod, the others at midnight.
DailyRun(a, n, tod) ==
    [k \in 1..n |->
        [date |-> timedelta(a + k - 1) + (IF k = 1 THEN tod ELSE 0),
         value |-> Int2F(50)]]

\* The window sizes a run is analysed with: equal, or one of them the largest.
WindowPairs ==
    { w \in WindowSizes \X WindowSizes :
        w[1] = w[2] \/ w[1] = MaxDays \/ w[2] = MaxDays }

\* Dates: every daily run of the timeline, at every anchor time of day.
RunInput ==
    \E a \in 0..LastDay, tod \in TimesOfDay, ts \in TimesOfDay, w \in WindowPairs :
       \E n \in 0..(LastDay + 1 - a) :
          Input(Frame({"date", "value"}, DailyRun(a, n, tod)),
                timedelta(AnchorDay) + ts, w[1], w[2])

\* The rows of the cells cs, one a day at midnight from day a on.
DailyCells(a, cs) ==
    [k \in DOMAIN cs |-> [date |-> timedelta(a + k - 1), value |-> cs[k]]]

\* The sequences of up to MaxRows cells of which at most one, the first or the
\* last, is missing.
CellSeqs ==
    { cs \in UNION {[1..n -> Cells] : n \in 0..MaxRows} :
        /\ Cardinality({k \in DOMAIN cs : IsNaN(cs[k])}) <= 1
        /\ \A k \in DOMAIN cs : IsNaN(cs[k]) => k \in {1, Len(cs)} }

\* Values: up to MaxRows cells (valued or missing) a window, the baseline cells
\* on the days just before the anchor, the intervention cells from the anchor on.
ValueInput ==
    \E bs \in CellSeqs, is \in CellSeqs :
       Input(Frame({"date", "value"},
                   DailyCells(AnchorDay - Len(bs), bs) \o DailyCells(AnchorDay, is)),
             timedelta(AnchorDay), MaxRows, MaxRows)

\* Metric identities: a frame with a metric_name column, all rows of one name
\* but at most one, analysed with windows that hold all rows or one day each.
NamedRows(a, n, odd) ==
    [k \in 1..n |->
        [date |-> timedelta(a + k - 1), value |-> Int2F(50),
         metric_name |-> IF k = odd THEN "Metric B" ELSE "Metric A"]]

NameInput ==
    \E nb \in 0..MaxRows, ni \in 0..MaxRows, odd \in 0..(2 * MaxRows), w \in {1, MaxRows} :
       Input(Frame({"date", "value", "metric_name"},
                   NamedRows(AnchorDay - nb, nb + ni, odd)),
             timedelta(AnchorDay), w, w)

-----------------------------------------------------------------------------
(* The state machine: a call of the engine on an input.                    *)

\* No analyze_multiple_metrics call is part of the run.
NoMulti ==
    /\ scipy_build = None
    /\ metrics_map = None
    /\ results = None
    /\ global_warnings = None

\* No failure is injected into the library.
NoFaults == faults = {}

\* No second call is part of the run.
NoRepeat ==
    /\ shuffled = None
    /\ result_again = None

\* Nothing is rendered in the run.
NoRender ==
    /\ report = None
    /\ display = None

\* No concurrent calls are part of the run.
NoThreads == calls = None

\* No settings manager is part of the run.
NoSettings ==
    /\ settings = None
    /\ settings_file = None
    /\ saved = None
    /\ reloaded = None
    /\ call = None

\* No bootstrap_ci call is part of the run.
NoBootstrap ==
    /\ group1 = None
    /\ group2 = None
    /\ n_bootstraps = None
    /\ diffs = None

\* No calculate_trend call is part of the run.
NoTrend == series = None

\* No DataManager is part of the run.
NoData ==
    /\ db = None
    /\ store = None
    /\ session = None
    /\ export_file = None
    /\ last_call = None

\* No widget of the workspace is part of the run.
NoGui ==
    /\ interventions = None
    /\ selected = None
    /\ today = None
    /\ gui_call = None
    /\ tabs = None
    /\ analysis_tab = None
    /\ metric_entries = None

\* Nothing of the application around the engine is part of the run.
NoApp ==
    /\ NoBootstrap
    /\ NoTrend
    /\ NoData
    /\ NoGui

Init ==
    /\ RunInput \/ ValueInput \/ NameInput
    /\ pc = "call"
    /\ result = None
    /\ NoMulti
    /\ NoFaults
    /\ NoRepeat
    /\ NoRender
    /\ NoSettings
    /\ NoThreads
    /\ NoApp

\* AnalysisEngine.calculate_baseline_vs_intervention
calculate_baseline_vs_intervention ==
    /\ pc = "call"
    /\ LET outcome == Outcomes(metrics, start_date, baseline_days, intervention_days)
       IN  \E o \in {outcome[scipy] : scipy \in ScipyBuilds} :
              /\ result' = o.result
              /\ pc' = o.pc
    /\ UNCHANGED <<metrics, start_date, baseline_days, intervention_days>>
    /\ UNCHANGED <<multi_vars, extra_vars>>

Next == calculate_baseline_vs_intervention

Spec == Init /\ [][Next]_vars

-----------------------------------------------------------------------------
(* AnalysisEngine.analyze_multiple_metrics: the coordinator that runs the  *)
(* engine on every entry of a dict of frames.  The dict is a sequence of   *)
(* [key, df] in insertion order, which is the order the loop visits.       *)

\* str(e) of a caught exception: its message.
str(e) ==
    IF e.raised = "KeyError" THEN [quoted |-> e.text]
    ELSE [text |-> e.text, found |-> e.found]

\* Variant of the global warning that fires from MAX_SAFE_METRICS metrics on.
MultipleComparisonWarning_AtLeast(n) ==
    IF n >= MAX_SAFE_METRICS
    THEN <<[text |-> "Multiple Comparison Risk", metrics |-> n]>>
    ELSE <<>>

\* The global warning on a dict of n metrics.
MultipleComparisonWarning(n) ==
    IF n > MAX_SAFE_METRICS
    THEN <<[text |-> "Multiple Comparison Risk", metrics |-> n]>>
    ELSE <<>>

\* Variant of the filter that keeps the rows of every other name.
FilterByName_Others(df, metric_name) ==
    IF HasNameColumn(df)
    THEN Frame(df.columns, SelectSeq(df.rows, LAMBDA r : r.metric_name # metric_name))
    ELSE df

\* df[df['metric_name'] == metric_name] if the column exists, else df
FilterByName(df, metric_name) ==
    IF HasNameColumn(df)
    THEN Frame(df.columns, SelectSeq(df.rows, LAMBDA r : r.metric_name = metric_name))
    ELSE df

\* Variant of the loop body that hands the frame to the engine unfiltered.
MetricEntry_Unfiltered(metric_name, df, sd, bd, id, build) ==
    LET o == Outcomes(df, sd, bd, id)[build]
    IN  IF o.pc = "raise" THEN [error |-> str(o.result)] ELSE o.result

\* The body of the loop: what results[metric_name] is set to.
MetricEntry(metric_name, df, sd, bd, id, build) ==
    LET o == Outcomes(FilterByName(df, metric_name), sd, bd, id)[build]
    IN  IF o.pc = "raise" THEN [error |-> str(o.result)] ELSE o.result

\* The keys a dict can have, in the order they are inserted.
MetricNames == <<"Metric A", "Metric B", "Metric C", "Metric D", "Metric E", "Metric F">>

\* A frame of one row a day over both windows: v1 before the anchor, v2 from it on.
TwoLevels(v1, v2) ==
    Frame({"date", "value"},
          DailyCells(AnchorDay - MaxRows, [k \in 1..MaxRows |-> Int2F(v1)])
          \o DailyCells(AnchorDay, [k \in 1..MaxRows |-> Int2F(v2)]))

\* A frame that holds the rows of Metric A (at 50) and of Metric B (at 55).
SharedFrame ==
    Frame({"date", "value", "metric_name"},
          [k \in 1..(4 * MaxRows) |->
              [date |-> timedelta(AnchorDay - MaxRows + ((k - 1) \div 2)),
               value |-> IF k % 2 = 1 THEN Int2F(50) ELSE Int2F(55),
               metric_name |-> IF k % 2 = 1 THEN "Metric A" ELSE "Metric B"]])

\* The frames of a dict: two that give a full result, one too short for the
\* gate, one without a date column, one shared by two metrics.
MultiFrames ==
    { TwoLevels(50, 50),
      TwoLevels(50, 55),
      Frame({"date", "value"}, DailyCells(AnchorDay - 1, <<Int2F(50), Int2F(55)>>)),
      Frame({"value"}, <<[value |-> Int2F(50)]>>),
      SharedFrame }

MultiInit ==
    /\ \E n \in 0..MaxMetrics : \E fs \in [1..n -> MultiFrames] :
          metrics_map = [k \in 1..n |-> [key |-> MetricNames[k], df |-> fs[k]]]
    /\ scipy_build \in ScipyBuilds
    /\ start_date = timedelta(AnchorDay)
    /\ baseline_days = MaxRows
    /\ intervention_days = MaxRows
    /\ metrics = None
    /\ pc = "call"
    /\ result = None
    /\ results = None
    /\ global_warnings = None
    /\ NoFaults
    /\ NoRepeat
    /\ NoRender
    /\ NoSettings
    /\ NoThreads
    /\ NoApp


\* results = {}; warnings = []; the multiple-comparison check.
analyze_multiple_metrics ==
    /\ pc = "call"
    /\ results' = <<>>
    /\ global_warnings' = MultipleComparisonWarning(Len(metrics_map))
    /\ pc' = "loop"
    /\ UNCHANGED <<metrics, start_date, baseline_days, intervention_days, result,
                   scipy_build, metrics_map>>
    /\ UNCHANGED extra_vars

\* One iteration of: for metric_name, df in metrics_map.items()
analyze_next_metric ==
    /\ pc = "loop"
    /\ Len(results) < Len(metrics_map)
    /\ LET item == metrics_map[Len(results) + 1]
       IN  results' = Append(results,
                        [key |-> item.key,
                         value |-> MetricEntry(item.key, item.df, start_date,
                                               baseline_days, intervention_days,
                                               scipy_build)])
    /\ UNCHANGED <<metrics, start_date, baseline_days, intervention_days, pc, result,
                   scipy_build, metrics_map, global_warnings>>
    /\ UNCHANGED extra_vars

\* return {"results": results, "global_warnings": warnings}
analyze_multiple_metrics_return ==
    /\ pc = "loop"
    /\ Len(results) = Len(metrics_map)
    /\ result' = [results |-> results, global_warnings |-> global_warnings]
    /\ pc' = "return"
    /\ UNCHANGED <<metrics, start_date, baseline_days, intervention_days,
                   scipy_build, metrics_map, results, global_warnings>>
    /\ UNCHANGED extra_vars

MultiNext ==
    \/ analyze_multiple_metrics
    \/ analyze_next_metric
    \/ analyze_multiple_metrics_return

SpecMulti == MultiInit /\ [][MultiNext]_vars

-----------------------------------------------------------------------------
(* The engine on a library that fails: each of the two scipy.stats calls   *)
(* of the engine may raise, which the try/except around it catches.        *)

\* Complete windows of values, or windows one sample short of the gate.
FaultCells == UNION {[1..n -> {Int2F(v) : v \in Values}] : n \in {MIN_DATA_POINTS - 1, MaxRows}}

FaultInit ==
    /\ \E bs \in FaultCells, is \in FaultCells :
          Input(Frame({"date", "value"},
                      DailyCells(AnchorDay - Len(bs), bs) \o DailyCells(AnchorDay, is)),
                timedelta(AnchorDay), MaxRows, MaxRows)
    /\ faults \in SUBSET LibraryCalls
    /\ pc = "call"
    /\ result = None
    /\ NoMulti
    /\ NoRepeat
    /\ NoRender
    /\ NoSettings
    /\ NoThreads
    /\ NoApp


\* AnalysisEngine.calculate_baseline_vs_intervention, the library failing as injected
calculate_with_failing_library ==
    /\ pc = "call"
    /\ LET outcome == OutcomesUnder(metrics, start_date, baseline_days,
                                    intervention_days, faults)
       IN  \E o \in {outcome[scipy] : scipy \in ScipyBuilds} :
              /\ result' = o.result
              /\ pc' = o.pc
    /\ UNCHANGED <<metrics, start_date, baseline_days, intervention_days>>
    /\ UNCHANGED <<multi_vars, extra_vars>>

FaultNext == calculate_with_failing_library

SpecFault == FaultInit /\ [][FaultNext]_vars

-----------------------------------------------------------------------------
(* The engine called twice in one process: on a frame, then on the rows of *)
(* that frame in another order.  The engine never sorts its input, so each *)
(* window's series holds the rows in the order the frame has them.         *)

\* Values whose float sums are rounded: the three largest a float holds with
\* a gap of 1.
RoundedValues == {MaxExact - 3, MaxExact - 2, MaxExact - 1}

\* Windows of MIN_DATA_POINTS such values.
RoundedCells == [1..MIN_DATA_POINTS -> {Int2F(v) : v \in RoundedValues}]

\* Those of them that ascend: the intervention rows as the frame first has them.
AscendingCells ==
    {cs \in RoundedCells : \A k \in 1..(MIN_DATA_POINTS - 1) : cs[k].num <= cs[k + 1].num}

\* The orders the rows are given in: as they are, reversed, or with two of
\* them exchanged.
Shuffles(n) ==
    {[k \in 1..n |-> k], [k \in 1..n |-> n + 1 - k]}
       \cup {[k \in 1..n |-> IF k = i THEN j ELSE IF k = j THEN i ELSE k] :
                i \in 1..n, j \in 1..n}

\* The frame df with its rows in the order p.
Reordered(df, p) == [df EXCEPT !.rows = [k \in DOMAIN p |-> df.rows[p[k]]]]

RepeatInit ==
    /\ \E bs \in RoundedCells, is \in AscendingCells :
          Input(Frame({"date", "value"},
                      DailyCells(AnchorDay - Len(bs), bs) \o DailyCells(AnchorDay, is)),
                timedelta(AnchorDay), MaxRows, MaxRows)
    /\ \E p \in Shuffles(2 * MIN_DATA_POINTS) : shuffled = Reordered(metrics, p)
    /\ scipy_build \in ScipyBuilds
    /\ pc = "call"
    /\ result = None
    /\ result_again = None
    /\ metrics_map = None
    /\ results = None
    /\ global_warnings = None
    /\ NoFaults
    /\ NoRender
    /\ NoSettings
    /\ NoThreads
    /\ NoApp

\* AnalysisEngine.calculate_baseline_vs_intervention on metrics
calculate_first ==
    /\ pc = "call"
    /\ LET o == Outcomes(metrics, start_date, baseline_days,
                         intervention_days)[scipy_build]
       IN  /\ result' = o.result
           /\ pc' = o.pc
    /\ UNCHANGED <<metrics, start_date, baseline_days, intervention_days>>
    /\ UNCHANGED <<multi_vars, faults, repeat_vars, render_vars, settings_vars, calls, app_vars>>

\* AnalysisEngine.calculate_baseline_vs_intervention on the reordered frame
calculate_again ==
    /\ pc # "call"
    /\ result_again = None
    /\ result_again' = Outcomes(shuffled, start_date, baseline_days,
                                intervention_days)[scipy_build].result
    /\ UNCHANGED <<engine_vars, multi_vars, faults, shuffled, render_vars, settings_vars, calls, app_vars>>


RepeatNext ==
    \/ calculate_first
    \/ calculate_again

SpecRepeat == RepeatInit /\ [][RepeatNext]_vars

-----------------------------------------------------------------------------
(* Rendering a full result: ReportGenerator.generate_html_report and       *)
(* AnalysisWidget.display_results.  A dict is a function on its keys, a    *)
(* null field holds None, an absent field is no key.  A piece of rendered  *)
(* text is a record: the digits a number is formatted to, or a fixed text. *)

\* dict.get(key, default)
get(d, key, default) == IF key \in DOMAIN d THEN d[key] ELSE default

\* {}
EmptyDict == [k \in {} |-> None]

\* The truth value of a dict or None in a condition.
Truthy(d) == d # None /\ DOMAIN d # {}

TypeError == [raised |-> "TypeError"]
NA == [text |-> "N/A"]
NoLine == [text |-> ""]

RECURSIVE Pow10(_)
Pow10(n) == IF n = 0 THEN 1 ELSE 10 * Pow10(n - 1)

\* n / d rounded to the nearest integer, ties to even.
RoundHalfEven(n, d) ==
    LET q == Abs(n) \div d
        r == Abs(n) % d
        up == IF 2 * r = d THEN q % 2 = 1 ELSE 2 * r > d
        a == IF up THEN q + 1 ELSE q
    IN  IF n < 0 THEN 0 - a ELSE a

\* f"{v:.2f}", f"{v:.4f}": the number at decimals decimals; formatting None
\* raises a TypeError.
format(v, decimals) ==
    IF v = None THEN TypeError
    ELSE IF DOMAIN v = {"num", "den"}
    THEN [digits |-> RoundHalfEven(v.num * Pow10(decimals), v.den),
          decimals |-> decimals]
    ELSE \* a float kept in closed form (a root, a p-value) or nan: it formats
         [number |-> v, decimals |-> decimals]

\* f"{v:.2f}" if v is not None else "N/A"
FormatOrNA(v, decimals) == IF v # None THEN format(v, decimals) ELSE NA

\* The trend text of a window, the same in both renderers.
TrendText(w) ==
    LET trend == get(w, "trend", EmptyDict)
    IN  IF Truthy(trend) /\ get(trend, "slope", None) # None
        THEN [slope |-> format(get(trend, "slope", Zero), 4),
              p_value |-> format(get(trend, "p_value", Int2F(1)), 4)]
        ELSE NA

\* [lower, upper] of a bootstrap interval that has a lower bound.
IntervalText(ci) ==
    IF Truthy(ci) /\ get(ci, "lower", None) # None
    THEN [lower |-> format(get(ci, "lower", Zero), 2),
          upper |-> format(get(ci, "upper", Zero), 2)]
    ELSE NA

\* A row of the report's Windows table.
ReportWindowRow(w) ==
    [mean |-> format(get(w, "mean", Zero), 2),
     std |-> format(get(w, "std", Zero), 2),
     trend |-> TrendText(w)]

\* The page the report is built from, field by field.
ReportPage(res) ==
    LET an == res.analysis
        tt == get(an, "t_test", EmptyDict)
        u_test == get(an, "mann_whitney_u", EmptyDict)
    IN  [mean_difference |-> format(get(an, "mean_difference", Zero), 2),
         cohens_d |-> format(get(an, "cohens_d", Zero), 2),
         bootstrap_ci |-> IF "bootstrap_ci" \in DOMAIN an
                          THEN IntervalText(an.bootstrap_ci)
                          ELSE NoLine,
         t_statistic |-> FormatOrNA(get(tt, "statistic", None), 2),
         t_p_value |-> FormatOrNA(get(tt, "p_value", None), 4),

         u_statistic |-> FormatOrNA(get(u_test, "statistic", None), 2),
         u_p_value |-> FormatOrNA(get(u_test, "p_value", None), 4),
         baseline_window |-> ReportWindowRow(get(res, "baseline_window", EmptyDict)),
         intervention_window |->
             ReportWindowRow(get(res, "intervention_window", EmptyDict))]

\* The pieces of text of a window row, and of an interval or trend text.
Pieces(text) == IF text \in {NA, NoLine} THEN {text} ELSE {text[k] : k \in DOMAIN text}
RowPieces(row) == {row.mean, row.std} \cup Pieces(row.trend)

\* Building the page raised.
ReportRaises(page) ==
    TypeError \in
        {page.mean_difference, page.cohens_d, page.t_statistic, page.t_p_value,
         page.u_statistic, page.u_p_value}
           \cup Pieces(page.bootstrap_ci)
           \cup RowPieces(page.baseline_window)
           \cup RowPieces(page.intervention_window)

\* ReportGenerator.generate_html_report: the page is written and True returned,
\* or the exception is logged and False returned.
generate_html_report_of(res) ==
    IF "analysis" \notin DOMAIN res
    THEN [returned |-> FALSE]    \* results['analysis']: a KeyError, caught
    ELSE LET page == ReportPage(res)
         IN  IF ReportRaises(page) THEN [returned |-> FALSE]
             ELSE [returned |-> TRUE, html |-> page]

\* A window line of the display.
DisplayWindowLine(w) ==
    [mean |-> format(get(w, "mean", None), 2),
     std |-> format(get(w, "std", None), 2),
     trend |-> TrendText(w)]

\* The text of the display, field by field.
DisplayText(res) ==
    LET an == get(res, "analysis", EmptyDict)
        tt == get(an, "t_test", EmptyDict)
        u == get(an, "mann_whitney_u", EmptyDict)
    IN  [baseline_window |-> DisplayWindowLine(get(res, "baseline_window", EmptyDict)),
         intervention_window |->
             DisplayWindowLine(get(res, "intervention_window", EmptyDict)),
         mean_difference |-> format(get(an, "mean_difference", None), 2),
         cohens_d |-> format(get(an, "cohens_d", None), 2),
         bootstrap_ci |-> IntervalText(get(an, "bootstrap_ci", EmptyDict)),
         t_p_value |-> FormatOrNA(get(tt, "p_value", None), 4),
         u_p_value |-> FormatOrNA(get(u, "p_value", None), 4)]

DisplayRaises(text) ==
    TypeError \in
        {text.mean_difference, text.cohens_d, text.t_p_value, text.u_p_value}
           \cup Pieces(text.bootstrap_ci)
           \cup RowPieces(text.baseline_window)
           \cup RowPieces(text.intervention_window)

\* AnalysisWidget.display_results: the text is set, or the exception leaves
\* the method.
display_results_of(res) ==
    IF "error" \in DOMAIN res
    THEN [text |-> [error |-> res.error]]
    ELSE LET text == DisplayText(res)
         IN  IF DisplayRaises(text) THEN TypeError ELSE [text |-> text]

\* The numbers of the rendered results: 0 and 1.2345.
Numbers == {Zero, Rat(12345, 10000)}

\* A full result in the shape of the output contract, every number x.
CompleteWindow(first_day, x) ==
    [start |-> timedelta(first_day),
     end |-> timedelta(first_day + MaxRows - 1),
     count |-> MaxRows,
     mean |-> x,
     std |-> x,
     trend |-> [slope |-> x, p_value |-> x]]

CompleteResult(x) ==
    [baseline_window |-> CompleteWindow(AnchorDay - MaxRows, x),
     intervention_window |-> CompleteWindow(AnchorDay, x),
     analysis |->
        [mean_difference |-> x,
         cohens_d |-> x,
         bootstrap_ci |-> [lower |-> x, upper |-> x],
         t_test |-> [statistic |-> x, p_value |-> x],
         mann_whitney_u |-> [statistic |-> x, p_value |-> x]],
     warnings |-> <<>>]

\* The numeric fields of a full result, and the dicts of numbers in it, by
\* the keys that lead to them.
WindowKeys == {"baseline_window", "intervention_window"}
NumericFields ==
    {<<"analysis", "mean_difference">>, <<"analysis", "cohens_d">>,
     <<"analysis", "bootstrap_ci", "lower">>, <<"analysis", "bootstrap_ci", "upper">>,
     <<"analysis", "t_test", "statistic">>, <<"analysis", "t_test", "p_value">>,
     <<"analysis", "mann_whitney_u", "statistic">>,
     <<"analysis", "mann_whitney_u", "p_value">>}
       \cup {<<w, "mean">> : w \in WindowKeys}
       \cup {<<w, "std">> : w \in WindowKeys}
       \cup {<<w, "trend", "slope">> : w \in WindowKeys}
       \cup {<<w, "trend", "p_value">> : w \in WindowKeys}
OptionalDicts == {<<"analysis", "bootstrap_ci">>} \cup {<<w, "trend">> : w \in WindowKeys}

\* The dict d with the field at path set to null, or without it.
RECURSIVE Nulled(_, _)
Nulled(d, path) ==
    IF d = None \/ path[1] \notin DOMAIN d THEN d
    ELSE [k \in DOMAIN d |->
             IF k # path[1] THEN d[k]
             ELSE IF Len(path) = 1 THEN None
             ELSE Nulled(d[k], Tail(path))]

RECURSIVE Without(_, _)
Without(d, path) ==
    IF d = None \/ path[1] \notin DOMAIN d THEN d
    ELSE IF Len(path) = 1 THEN [k \in DOMAIN d \ {path[1]} |-> d[k]]
    ELSE [k \in DOMAIN d |->
             IF k # path[1] THEN d[k] ELSE Without(d[k], Tail(path))]

\* The full results that are rendered: complete, or with up to two fields
\* null or absent.
Lacking(d, path, how) ==
    IF how = "null" THEN Nulled(d, path)
    ELSE IF how = "absent" THEN Without(d, path)
    ELSE d

RenderInit ==
    /\ \E x \in Numbers :
       \E p1 \in NumericFields \cup OptionalDicts, p2 \in NumericFields \cup OptionalDicts :
       \E h1 \in {"null", "absent", "kept"}, h2 \in {"null", "absent", "kept"} :
          result = Lacking(Lacking(CompleteResult(x), p1, h1), p2, h2)
    /\ pc = "return"
    /\ metrics = None
    /\ start_date = timedelta(AnchorDay)
    /\ baseline_days = MaxRows
    /\ intervention_days = MaxRows
    /\ NoMulti
    /\ NoFaults
    /\ NoRepeat
    /\ NoRender
    /\ NoSettings
    /\ NoThreads
    /\ NoApp

\* ReportGenerator.generate_html_report(results, ...)
generate_html_report ==
    /\ report = None
    /\ report' = generate_html_report_of(result)
    /\ UNCHANGED <<engine_vars, multi_vars, faults, repeat_vars, display, settings_vars, calls, app_vars>>

\* AnalysisWidget.display_results(results, ...)
display_results ==
    /\ display = None
    /\ display' = display_results_of(result)
    /\ UNCHANGED <<engine_vars, multi_vars, faults, repeat_vars, report, settings_vars, calls, app_vars>>

RenderNext ==
    \/ generate_html_report
    \/ display_results

SpecRender == RenderInit /\ [][RenderNext]_vars

-----------------------------------------------------------------------------
(* SettingsManager: the four thresholds as a dict, persisted in the JSON   *)
(* file settings.json.  Opening, writing and reading the file may fail;    *)
(* the manager logs an IOError and goes on.                                *)

\* self.defaults
defaults ==
    [min_baseline_days |-> MIN_BASELINE_DAYS,
     min_intervention_days |-> MIN_INTERVENTION_DAYS,
     min_data_points |-> MIN_DATA_POINTS,
     max_safe_metrics |-> MAX_SAFE_METRICS]

\* A key that is no setting, and the values a setting is given.
StaleKey == "theme"
SettingValues == {MIN_DATA_POINTS, MIN_BASELINE_DAYS}
OtherValue(v) == CHOOSE w \in SettingValues : w # v

\* json.dump of a dict of integers: a JSON object of number tokens.
dumps(d) == [k \in DOMAIN d |-> [number |-> d[k]]]
\* json.load of such an object.
loads(text) == [k \in DOMAIN text |-> text[k].number]
\* The content of a file that is no JSON document.
Corrupt == [corrupt |-> TRUE]

\* The file was opened, read and parsed without an exception.
ReadsWell(file, readable) == file # None /\ file # Corrupt /\ readable

\* Variant of load_settings that keeps only what the file names.
load_settings_of_FileOnly(current, file, readable) ==
    IF ReadsWell(file, readable) THEN loads(file) ELSE defaults

\* SettingsManager.load_settings on a manager that holds current: the dict it
\* holds afterwards.
load_settings_of(current, file, readable) ==
    IF ReadsWell(file, readable)
    THEN LET user_settings == loads(file)
             updated == [k \in DOMAIN current \cup DOMAIN user_settings |->
                            IF k \in DOMAIN user_settings THEN user_settings[k]
                            ELSE current[k]]
         IN  [k \in DOMAIN defaults \cap DOMAIN updated |-> updated[k]]
    ELSE defaults

\* SettingsManager(): a new manager over the file.
SettingsManager(file, readable) ==
    [settings |-> load_settings_of(defaults, file, readable),
     read |-> file = None \/ ReadsWell(file, readable)]

\* The settings files found at start: none, a corrupt one, or one that names
\* a subset of the settings, each with another value than its default, with
\* or without a stale key.
OverridingFile(S) ==
    dumps([k \in S |-> IF k = StaleKey THEN MIN_DATA_POINTS
                       ELSE OtherValue(defaults[k])])
InitialFiles ==
    {None, Corrupt}
       \cup {OverridingFile(S) : S \in SUBSET (DOMAIN defaults \cup {StaleKey})}

\* No engine call is part of the run.
NoCall ==
    /\ metrics = None
    /\ start_date = None
    /\ baseline_days = None
    /\ intervention_days = None
    /\ pc = None
    /\ result = None

\* settings_manager = SettingsManager()
SettingsInit ==
    /\ settings_file \in InitialFiles
    /\ \E readable \in BOOLEAN :
          settings = SettingsManager(settings_file, readable).settings
    /\ saved = None
    /\ reloaded = None
    /\ call = None
    /\ NoCall
    /\ NoMulti
    /\ NoFaults
    /\ NoRepeat
    /\ NoRender
    /\ NoThreads
    /\ NoApp

\* SettingsManager.set(key, value)
set(key, value) ==
    /\ reloaded = None
    /\ settings' = IF key \in DOMAIN defaults
                   THEN [settings EXCEPT ![key] = value]
                   ELSE settings
    /\ call' = [op |-> "set", key |-> key, value |-> value]
    /\ UNCHANGED <<settings_file, saved, reloaded>>
    /\ UNCHANGED <<engine_vars, multi_vars, faults, repeat_vars, render_vars, calls, app_vars>>

\* SettingsManager.load_settings() on the global instance
load_settings ==
    /\ reloaded = None
    /\ \E readable \in BOOLEAN :
          /\ settings' = load_settings_of(settings, settings_file, readable)
          /\ call' = [op |-> "load_settings",
                      read |-> ReadsWell(settings_file, readable)]

    /\ UNCHANGED <<settings_file, saved, reloaded>>
    /\ UNCHANGED <<engine_vars, multi_vars, faults, repeat_vars, render_vars, calls, app_vars>>

\* SettingsManager.save_settings(): the file is written; or it cannot be
\* opened and stays as it was; or the write fails and leaves it cut short.
save_settings ==
    /\ reloaded = None
    /\ \E outcome \in {"written", "not opened", "cut short"} :
          /\ settings_file' = IF outcome = "written" THEN dumps(settings)
                              ELSE IF outcome = "not opened" THEN settings_file
                              ELSE Corrupt
          /\ saved' = [settings |-> settings, written |-> outcome = "written"]
    /\ call' = [op |-> "save_settings"]
    /\ UNCHANGED <<settings, reloaded>>
    /\ UNCHANGED <<engine_vars, multi_vars, faults, repeat_vars, render_vars, calls, app_vars>>

\* SettingsManager() once more, over the same file
new_manager ==
    /\ reloaded = None
    /\ \E readable \in BOOLEAN :
          reloaded' = SettingsManager(settings_file, readable)
    /\ UNCHANGED <<settings, settings_file, saved, call>>
    /\ UNCHANGED <<engine_vars, multi_vars, faults, repeat_vars, render_vars, calls, app_vars>>

SettingsNext ==
    \/ \E key \in DOMAIN defaults \cup {StaleKey}, value \in SettingValues : set(key, value)
    \/ load_settings
    \/ save_settings
    \/ new_manager

SpecSettings == SettingsInit /\ [][SettingsNext]_vars

-----------------------------------------------------------------------------
(* Engine calls of two threads of one process.  A caller has no way to     *)
(* hand thresholds to the engine; what can be configured is the global     *)
(* settings_manager.  The engine reads its thresholds from the module      *)
(* constants bound when pee.core.analysis was imported.                    *)

Threads == {1, 2}

\* The thresholds a caller configures: the defaults, a stricter data-point
\* gate, or shorter recommended windows.
ConfiguredThresholds ==
    {defaults,
     [defaults EXCEPT !.min_data_points = MIN_BASELINE_DAYS],
     [defaults EXCEPT !.min_baseline_days = MIN_DATA_POINTS,
                      !.min_intervention_days = MIN_DATA_POINTS]}

\* The frame of a call: n samples of one value a day in each window.
ThreadFrame(n) ==
    Frame({"date", "value"},
          DailyCells(AnchorDay - n, [k \in 1..n |-> Int2F(50)])
             \o DailyCells(AnchorDay, [k \in 1..n |-> Int2F(50)]))

\* What the engine does on the frame of a call.
ThreadOutcome(c) ==
    Outcomes(ThreadFrame(c.samples), start_date, baseline_days,
             intervention_days)[scipy_build]

ThreadsInit ==
    /\ calls \in [Threads ->
                    [pc : {"new"},
                     thresholds : ConfiguredThresholds,
                     samples : {MIN_DATA_POINTS - 1, MIN_DATA_POINTS, MaxRows},
                     result : {None}]]
    /\ scipy_build \in ScipyBuilds
    /\ start_date = timedelta(AnchorDay)
    /\ baseline_days = MaxRows
    /\ intervention_days = MaxRows
    /\ metrics = None
    /\ pc = None
    /\ result = None
    /\ metrics_map = None
    /\ results = None
    /\ global_warnings = None
    /\ settings_file = None
    /\ settings = SettingsManager(settings_file, TRUE).settings
    /\ saved = None
    /\ reloaded = None
    /\ call = None
    /\ NoFaults
    /\ NoRepeat
    /\ NoRender
    /\ NoApp

\* The caller configures its thresholds: settings_manager.set for each key.
configure(t) ==
    /\ calls[t].pc = "new"
    /\ settings' = [k \in DOMAIN settings |->
                       IF k \in DOMAIN defaults THEN calls[t].thresholds[k]
                       ELSE settings[k]]
    /\ call' = [op |-> "set", key |-> "max_safe_metrics",
                value |-> calls[t].thresholds.max_safe_metrics]
    /\ calls' = [calls EXCEPT ![t].pc = "configured"]
    /\ UNCHANGED <<settings_file, saved, reloaded>>
    /\ UNCHANGED <<engine_vars, multi_vars, faults, repeat_vars, render_vars, app_vars>>

\* calculate_baseline_vs_intervention is entered: the windows are filtered.
enter(t) ==
    /\ calls[t].pc = "configured"
    /\ calls' = [calls EXCEPT ![t].pc = "gate"]
    /\ UNCHANGED <<engine_vars, multi_vars, faults, repeat_vars, render_vars, settings_vars, app_vars>>

\* The data-point gate, on MIN_DATA_POINTS.
gate(t) ==
    /\ calls[t].pc = "gate"
    /\ LET o == ThreadOutcome(calls[t])
       IN  calls' = IF "error" \in DOMAIN o.result
                    THEN [calls EXCEPT ![t].pc = "done", ![t].result = o.result]
                    ELSE [calls EXCEPT ![t].pc = "warnings"]
    /\ UNCHANGED <<engine_vars, multi_vars, faults, repeat_vars, render_vars, settings_vars, app_vars>>

\* The span warnings, on MIN_BASELINE_DAYS and MIN_INTERVENTION_DAYS, the
\* statistics and the return.
finish(t) ==
    /\ calls[t].pc = "warnings"
    /\ calls' = [calls EXCEPT ![t].pc = "done",
                              ![t].result = ThreadOutcome(calls[t]).result]
    /\ UNCHANGED <<engine_vars, multi_vars, faults, repeat_vars, render_vars, settings_vars, app_vars>>

ThreadsNext ==
    \/ \E t \in Threads : configure(t)
    \/ \E t \in Threads : enter(t)
    \/ \E t \in Threads : gate(t)
    \/ \E t \in Threads : finish(t)
    \/ \E value \in SettingValues : set("min_data_points", value)
    \/ load_settings


SpecThreads == ThreadsInit /\ [][ThreadsNext]_vars

-----------------------------------------------------------------------------
(* The Bootstrap CI Estimator, AnalysisEngine.bootstrap_ci(g1, g2,         *)
(* n_bootstraps).  Each resample draws from each group, with replacement   *)
(* and independently, as many values as the group holds; the random        *)
(* generator is any choice of the draws.                                   *)

MaxGroup == 2
MaxResamples == 2
GroupValues == {0, 2}

\* The resamples of a group: its values at any draw of Len(g) positions.
Resamples(g) ==
    {[k \in DOMAIN g |-> g[draw[k]]] : draw \in [DOMAIN g -> DOMAIN g]}

\* The mean difference of one resample of each group.
ResampledDifference(s1, s2) == RatSub(mean(s2), mean(s1))

\* np.percentile(s, q): the value at rank (Len(s) - 1) * q / 100 of the
\* sorted values, interpolated linearly between the two nearest ranks.
percentile(s, q) ==
    LET sorted == SortSeq(s, LAMBDA a, b : RatLess(a, b))
        h == RatMul(Int2F(Len(s) - 1), RatDiv(q, Int2F(100)))
        below == h.num \div h.den
    IN  IF below + 1 >= Len(s)
        THEN sorted[Len(s)]
        ELSE RatAdd(sorted[below + 1],
                    RatMul(RatSub(h, Int2F(below)),
                           RatSub(sorted[below + 2], sorted[below + 1])))

\* Variant returning the two percentiles under each other's name.
Interval_Swapped(d) ==
    [lower |-> percentile(d, Rat(975, 10)), upper |-> percentile(d, Rat(25, 10))]

\* The 2.5th and 97.5th percentile of the resampled mean differences.
Interval(d) ==
    [lower |-> percentile(d, Rat(25, 10)), upper |-> percentile(d, Rat(975, 10))]

Groups ==
    UNION {[1..n -> {Int2F(v) : v \in GroupValues}] : n \in 0..MaxGroup}

\* No engine call is part of the run, and none of the calls around it.
NoEngine ==
    /\ metrics = None
    /\ start_date = None
    /\ baseline_days = None
    /\ intervention_days = None
    /\ NoMulti
    /\ NoFaults
    /\ NoRepeat
    /\ NoRender
    /\ NoSettings
    /\ NoThreads

BootstrapInit ==
    /\ group1 \in Groups
    /\ group2 \in Groups
    /\ n_bootstraps \in 1..MaxResamples
    /\ diffs = <<>>
    /\ pc = "call"
    /\ result = None
    /\ NoEngine
    /\ NoTrend
    /\ NoData
    /\ NoGui

\* One iteration of the loop of bootstrap_ci: a resample of each group.
resample ==
    /\ pc = "call"
    /\ Len(group1) > 0
    /\ Len(group2) > 0
    /\ Len(diffs) < n_bootstraps
    /\ \E s1 \in Resamples(group1), s2 \in Resamples(group2) :
          diffs' = Append(diffs, ResampledDifference(s1, s2))
    /\ UNCHANGED <<group1, group2, n_bootstraps, pc, result>>
    /\ UNCHANGED <<metrics, start_date, baseline_days, intervention_days, series>>
    /\ UNCHANGED <<multi_vars, faults, repeat_vars, render_vars, settings_vars, calls>>
    /\ UNCHANGED gui_vars
    /\ UNCHANGED data_vars

\* bootstrap_ci returns: nothing if a group is empty, else the interval.
bootstrap_ci ==
    /\ pc = "call"
    /\ IF Len(group1) = 0 \/ Len(group2) = 0
       THEN result' = None
       ELSE /\ Len(diffs) = n_bootstraps
            /\ result' = Interval(diffs)
    /\ pc' = "return"
    /\ UNCHANGED <<group1, group2, n_bootstraps, diffs>>
    /\ UNCHANGED <<metrics, start_date, baseline_days, intervention_days, series>>
    /\ UNCHANGED <<multi_vars, faults, repeat_vars, render_vars, settings_vars, calls>>
    /\ UNCHANGED gui_vars
    /\ UNCHANGED data_vars

BootstrapNext ==
    \/ resample
    \/ bootstrap_ci

SpecBootstrap == BootstrapInit /\ [][BootstrapNext]_vars

-----------------------------------------------------------------------------
(* The Trend Estimator, AnalysisEngine.calculate_trend(series): the        *)
(* least-squares slope of value against elapsed time, in days from the     *)
(* first point of the window.                                              *)

MaxPoints == 3
TrendValues == {0, 1, 2}

\* The elapsed time of point k, in days.
Elapsed(s, k) == Rat(s[k].date - s[1].date, TicksPerDay)
ElapsedColumn(s) == [k \in DOMAIN s |-> Elapsed(s, k)]

\* Sum over k of (x[k] - mean(x)) * (y[k] - mean(y)), exactly.
SumOfProducts(x, y) ==
    LET mx == RatDiv(SumF(x), Int2F(Len(x)))
        my == RatDiv(SumF(y), Int2F(Len(y)))
    IN  SumF([k \in DOMAIN x |-> RatMul(RatSub(x[k], mx), RatSub(y[k], my))])

\* The slope of the regression line of y on x, x not constant.
linregress_slope(x, y) == RatDiv(SumOfProducts(x, y), SumOfProducts(x, x))

\* Fewer than 2 points, or all points on one timestamp: no line exists.
TrendUndefined(s) ==
    \/ Len(s) < 2
    \/ \A k \in DOMAIN s : s[k].date = s[1].date

AllValuesIdentical(s) == \A k \in DOMAIN s : s[k].value = s[1].value

\* Variant reporting an undefined trend as a flat one.
calculate_trend_of_FlatWhenUndefined(s) ==
    IF TrendUndefined(s) \/ AllValuesIdentical(s)
    THEN [slope |-> Zero, p_value |-> One]
    ELSE [slope |-> linregress_slope(ElapsedColumn(s), ValueColumn(s)),
          p_value |-> [two_sided_p |-> "linregress", series |-> s]]

\* What calculate_trend returns on the window s.  The p-value of a tested
\* slope is kept as the test that gives it.
calculate_trend_of(s) ==
    IF TrendUndefined(s)
    THEN None
    ELSE IF AllValuesIdentical(s)
    THEN [slope |-> Zero, p_value |-> One]
    ELSE [slope |-> linregress_slope(ElapsedColumn(s), ValueColumn(s)),
          p_value |-> [two_sided_p |-> "linregress", series |-> s]]

\* The windows: up to MaxPoints points in time order, on the ticks of the
\* first MaxPoints - 1 days.
TrendTicks == 0..((MaxPoints - 1) * TicksPerDay - 1)
Windows_InTimeOrder ==
    {s \in UNION {[1..n -> [date : TrendTicks, value : {Int2F(v) : v \in TrendValues}]]
                     : n \in 0..MaxPoints} :
        \A k \in 1..(Len(s) - 1) : s[k].date <= s[k + 1].date}

TrendInit ==
    /\ series \in Windows_InTimeOrder
    /\ pc = "call"
    /\ result = None
    /\ NoEngine
    /\ NoBootstrap
    /\ NoData
    /\ NoGui

\* AnalysisEngine.calculate_trend
calculate_trend ==
    /\ pc = "call"
    /\ result' = calculate_trend_of(series)
    /\ pc' = "return"
    /\ UNCHANGED <<metrics, start_date, baseline_days, intervention_days, series>>
    /\ UNCHANGED <<multi_vars, faults, repeat_vars, render_vars, settings_vars, calls>>
    /\ UNCHANGED gui_vars
    /\ UNCHANGED data_vars
    /\ UNCHANGED bootstrap_vars

TrendNext == calculate_trend

SpecTrend == TrendInit /\ [][TrendNext]_vars

-----------------------------------------------------------------------------
(* The DataManager (src/main/core/data_manager.py and                      *)
(* src/pee/core/data_manager.py) over the metrics table.  A CSV file is    *)
(* its columns and its rows, a row a function from the columns to cells.   *)
(* The database is the committed rows of the table and the rows the        *)
(* session inserted in its open transaction.  What the file system and     *)
(* the database may refuse is a fault chosen with each call.               *)

MaxStore == 3
MaxCsvRows == 2

\* The cells of a CSV.  A date cell is the text of a timestamp, a day and a
\* time of day, or text that is no date; an empty value cell reads as NaN.
NotADate == [unparseable |-> TRUE]
DateCells == {[day |-> 1, tick |-> 0], [day |-> 2, tick |-> 1], NotADate}
ValueCells == {Int2F(8), NaN}
\* A row is sound, or lacks its value on the first day, or has no date.
CsvRows ==
    {row \in [date : DateCells, metric_name : {"Sleep"}, value : ValueCells, id : {7}] :
        IsNaN(row.value) => row.date = [day |-> 1, tick |-> 0]}
\* The file with the columns cols of the rows.
CsvFile(cols, rows) ==
    [columns |-> cols, rows |-> [k \in DOMAIN rows |-> [c \in cols |-> rows[k][c]]]]
\* The files: any rows under the three columns of a metrics file, and one
\* row under a column less, or a column more.
CsvFiles ==
    {CsvFile({"date", "metric_name", "value"}, rows) :
        rows \in UNION {[1..n -> CsvRows] : n \in 0..MaxCsvRows}}
    \cup {CsvFile(cols, <<row>>) :
             cols \in {{"date", "metric_name"}, {"date", "metric_name", "value", "id"}},
             row \in {row \in CsvRows : row.date = [day |-> 1, tick |-> 0] /\ ~IsNaN(row.value)}}


DataTypes == {"metrics", "photos"}
ImportFaults == {"none", "read_csv", "commit"}

\* The imports: any file as metrics, read well and committed or not; a file
\* of one row as any data type, under any fault.
ImportCalls ==
    {<<csv, "metrics", fault>> : csv \in CsvFiles, fault \in {"none", "commit"}}
    \cup {c \in CsvFiles \X DataTypes \X ImportFaults : Len(c[1].rows) = 1}
ExportFaults == {"none", "read_sql", "open", "write"}

required_cols == {"date", "metric_name", "value"}

\* pd.to_datetime(cell).date(): the day of the timestamp.
to_date(cell) == cell.day

\* MetricEntry(date=row['date'], metric_name=row['metric_name'], value=row['value'])
MetricEntryOf(row) ==
    [date |-> to_date(row.date),
     metric_name |-> row.metric_name,
     value |-> row.value,
     intervention_id |-> None]

\* nullable=False on a column: a NaN is bound as NULL and refused.
NotNullViolated(e) == IsNaN(e.value)
FirstViolation(entries) ==
    IF \E k \in DOMAIN entries : NotNullViolated(entries[k])
    THEN CHOOSE k \in DOMAIN entries :
            /\ NotNullViolated(entries[k])
            /\ \A j \in 1..(k - 1) : ~NotNullViolated(entries[j])
    ELSE 0

\* The transaction of a session over the table, tx = [store, session].
insert(tx, rows) == [tx EXCEPT !.session = @ \o rows]
\* The primary key is assigned on insert, one above the last.
commit(tx) ==
    [store |-> tx.store \o
                  [k \in DOMAIN tx.session |->
                      [id |-> Len(tx.store) + k,
                       date |-> tx.session[k].date,
                       metric_name |-> tx.session[k].metric_name,
                       value |-> tx.session[k].value,
                       intervention_id |-> tx.session[k].intervention_id]],
     session |-> <<>>]
\* Variant of rollback that keeps what the transaction inserted.
rollback_AsCommit(tx) == commit(tx)
rollback(tx) == [tx EXCEPT !.session = <<>>]

Returns(res, rows, committed) ==
    [raised |-> FALSE, result |-> res, inserted |-> rows, committed |-> committed]
Raises(e, rows) ==
    [raised |-> TRUE, e |-> e, inserted |-> rows, committed |-> FALSE]

\* {"success": True, "message": f"Successfully imported {len(entries)} metric entries."}
Imported(entries) ==
    [success |-> TRUE,
     message |-> [text |-> "Successfully imported metric entries.",
                  n |-> Len(entries)]]

\* The body of the try block of import_from_csv, up to its return or to the
\* first exception: what it returns or raises, the rows bulk_save_objects
\* inserted, and whether it committed.
import_body(csv, data_type, fault) ==
    IF fault = "read_csv"
    THEN Raises("read_csv", <<>>)
    ELSE IF data_type = "metrics"
    THEN IF ~(required_cols \subseteq csv.columns)
         THEN Returns([success |-> FALSE,
                       message |-> [text |-> "CSV must contain columns",
                                    columns |-> required_cols]],
                      <<>>, FALSE)
         ELSE IF \E k \in DOMAIN csv.rows : csv.rows[k].date = NotADate
         THEN Raises("to_datetime", <<>>)
         ELSE CHOOSE outcome \in
                 {IF FirstViolation(entries) > 0
                  THEN Raises("IntegrityError",
                              SubSeq(entries, 1, FirstViolation(entries) - 1))
                  ELSE IF fault = "commit"
                  THEN Raises("commit", entries)
                  ELSE Returns(Imported(entries), entries, TRUE)
                  : entries \in {[k \in DOMAIN csv.rows |-> MetricEntryOf(csv.rows[k])]}}
                 : TRUE
    ELSE Returns([success |-> FALSE, message |-> [text |-> "Invalid data type."]],
                 <<>>, FALSE)

\* import_from_csv on the transaction tx: the transaction after the call, and
\* what the call returns.  An exception is rolled back by the handler, or by
\* _get_session where the manager opened the session itself; a return
\* without commit leaves a session handed in as it is, and commits and
\* closes one the manager opened.
import_from_csv_of(tx, self_db, csv, data_type, fault) ==
    CHOOSE after \in
       {IF body.raised
        THEN [tx |-> rollback(insert(tx, body.inserted)),
              result |-> [success |-> FALSE,
                          message |-> [text |-> "Import failed", e |-> body.e]]]
        ELSE [tx |-> IF body.committed \/ ~self_db
                     THEN commit(insert(tx, body.inserted))
                     ELSE insert(tx, body.inserted),
              result |-> body.result]
        : body \in {import_body(csv, data_type, fault)}}
       : TRUE

\* Variant of the export that writes the table as it is read.
Exported_WithId(table) ==
    [columns |-> {"id", "date", "metric_name", "value", "intervention_id"},
     rows |-> table]

\* df.drop(columns=['id']).to_csv(filepath, index=False) on the table.
Exported(table) ==
    [columns |-> {"date", "metric_name", "value", "intervention_id"},
     rows |-> [k \in DOMAIN table |->
                  [date |-> table[k].date,
                   metric_name |-> table[k].metric_name,
                   value |-> table[k].value,
                   intervention_id |-> table[k].intervention_id]]]


\* export_to_csv: the file after the call, and what the call returns.  A
\* file that cannot be opened stays as it was; a write that fails leaves
\* the header and no rows.
export_to_csv_of(table, file, data_type, fault) ==
    IF data_type # "metrics"
    THEN [file |-> file,
          result |-> [success |-> FALSE, message |-> [text |-> "Invalid data type."]]]
    ELSE IF fault = "none"
    THEN [file |-> Exported(table),
          result |-> [success |-> TRUE,
                      message |-> [text |-> "Successfully exported metrics."]]]
    ELSE [file |-> IF fault = "write"
                   THEN [Exported(table) EXCEPT !.rows = <<>>]
                   ELSE file,
          result |-> [success |-> FALSE,
                      message |-> [text |-> "Export failed", e |-> fault]]]

DataInit ==
    /\ db \in BOOLEAN
    /\ store = <<>>
    /\ session = <<>>
    /\ export_file = None
    /\ last_call = None
    /\ pc = None
    /\ result = None
    /\ NoEngine
    /\ NoBootstrap
    /\ NoTrend
    /\ NoGui

\* DataManager.import_from_csv(filepath, data_type)
import_from_csv ==
    \E csv \in CsvFiles, data_type \in DataTypes, fault \in ImportFaults :
       /\ <<csv, data_type, fault>> \in ImportCalls
       /\ Len(store) + Len(csv.rows) <= MaxStore
       /\ LET after == import_from_csv_of([store |-> store, session |-> session],
                                          db, csv, data_type, fault)
          IN  /\ store' = after.tx.store
              /\ session' = after.tx.session
              /\ result' = after.result
       /\ last_call' = [op |-> "import_from_csv", csv |-> csv, data_type |-> data_type,
                        fault |-> fault, store |-> store]
       /\ UNCHANGED <<db, export_file, pc>>
       /\ UNCHANGED <<metrics, start_date, baseline_days, intervention_days, series>>
       /\ UNCHANGED <<multi_vars, faults, repeat_vars, render_vars, settings_vars, calls>>
       /\ UNCHANGED gui_vars
    /\ UNCHANGED gui_vars
       /\ UNCHANGED bootstrap_vars

\* DataManager.export_to_csv(filepath, data_type)
export_to_csv ==
    \E data_type \in DataTypes, fault \in ExportFaults :
       /\ LET after == export_to_csv_of(store, export_file, data_type, fault)
          IN  /\ export_file' = after.file
              /\ result' = after.result
       /\ last_call' = [op |-> "export_to_csv", csv |-> None, data_type |-> data_type,
                        fault |-> fault, store |-> store]
       /\ UNCHANGED <<db, store, session, pc>>
       /\ UNCHANGED <<metrics, start_date, baseline_days, intervention_days, series>>
       /\ UNCHANGED <<multi_vars, faults, repeat_vars, render_vars, settings_vars, calls>>
       /\ UNCHANGED gui_vars
    /\ UNCHANGED gui_vars
       /\ UNCHANGED bootstrap_vars

DataNext ==
    \/ import_from_csv
    \/ export_to_csv

SpecData == DataInit /\ [][DataNext]_vars

-----------------------------------------------------------------------------
(* The interventions list, InterventionsWidget: the table of interventions *)
(* and the three handlers that write it.  A date is a day of a short       *)
(* calendar; the dialog returns what the user entered.                     *)

MaxInterventions == 2
LastDate == 3

\* A datetime.date, and a primary key.
Date(d) == [day |-> d]
Id(n) == [pk |-> n]
Dates == {Date(d) : d \in 1..LastDate}

\* a < b on dates
Earlier(a, b) == a.day < b.day

\* InterventionDialog.get_data(): the name and the notes as typed, the start
\* date, and each end date if its box is checked, else None.
DialogData ==
    [name : {"", "Magnesium"},
     start_date : Dates,
     projected_end_date : {Date(1), None},
     end_date : Dates \cup {None},
     notes : {""}]

\* The validation of add_intervention and edit_selected_intervention: the
\* message shown, or None when the data passes.
ValidationError(data) ==
    IF data.name = "" THEN [text |-> "Name is required."]
    ELSE IF data.end_date # None /\ Earlier(data.end_date, data.start_date)
    THEN [text |-> "End date cannot be before start date."]
    ELSE IF /\ data.projected_end_date # None
            /\ Earlier(data.projected_end_date, data.start_date)
    THEN [text |-> "Projected end date cannot be before start date."]
    ELSE None

\* Intervention(name=..., start_date=..., ...) with the key the table gives it.
InterventionOf(id, data) ==
    [id |-> id,
     name |-> data.name,
     start_date |-> data.start_date,
     projected_end_date |-> data.projected_end_date,
     end_date |-> data.end_date,
     notes |-> data.notes]

\* db.query(Intervention).get(intervention_id): the position of the row.
RowOf(table, id) == {k \in DOMAIN table : table[k].id = id}

\* add_intervention on the table: nothing unless the dialog was accepted, the
\* data passed and the commit went through.
add_intervention_of(table, accepted, data, commit_fails) ==
    IF ~accepted \/ ValidationError(data) # None \/ commit_fails
    THEN table
    ELSE Append(table, InterventionOf(Id(Len(table) + 1), data))

\* edit_selected_intervention on the table: the selected row takes the data of
\* the dialog.
edit_selected_intervention_of(table, selected_rows, accepted, data, commit_fails) ==
    IF selected_rows = {} THEN table
    ELSE LET intervention_id == CHOOSE id \in selected_rows : TRUE
         IN  IF \/ RowOf(table, intervention_id) = {}
                \/ ~accepted
                \/ ValidationError(data) # None
                \/ commit_fails
             THEN table
             ELSE [k \in DOMAIN table |->
                      IF table[k].id = intervention_id
                      THEN InterventionOf(intervention_id, data)
                      ELSE table[k]]

\* intervention.end_date = date.today()
ClosingDate(intervention, now) == now

\* close_selected_intervention on the table: the selected row, if it is open,
\* ends today.
close_selected_intervention_of(table, selected_rows, now, commit_fails) ==
    IF selected_rows = {} THEN table
    ELSE LET intervention_id == CHOOSE id \in selected_rows : TRUE
         IN  IF \/ RowOf(table, intervention_id) = {}
                \/ commit_fails
             THEN table
             ELSE [k \in DOMAIN table |->
                      IF table[k].id = intervention_id /\ table[k].end_date = None
                      THEN [table[k] EXCEPT !.end_date = ClosingDate(table[k], now)]
                      ELSE table[k]]

\* refresh_table refills the list, which drops the selection; a handler that
\* did not commit leaves the list as it is.
Refreshed(before, after, selected_rows) ==
    IF after # before THEN {} ELSE selected_rows

\* No analysis workspace is part of the run.
NoWorkspace ==
    /\ tabs = None
    /\ analysis_tab = None
    /\ metric_entries = None

InterventionsInit ==
    /\ interventions = <<>>
    /\ selected = {}
    /\ today \in Dates
    /\ gui_call = None
    /\ NoWorkspace
    /\ pc = None
    /\ result = None
    /\ NoEngine
    /\ NoBootstrap
    /\ NoTrend
    /\ NoData

\* The user selects a row of the list, or none.
select_row ==
    /\ \E rows \in {{}} \cup {{interventions[k].id} : k \in DOMAIN interventions} :
          /\ rows # selected
          /\ selected' = rows
    /\ gui_call' = [op |-> "select_row", rejected |-> FALSE]
    /\ UNCHANGED <<interventions, today, tabs, analysis_tab, metric_entries>>
    /\ UNCHANGED <<engine_vars, multi_vars, faults, repeat_vars, render_vars, settings_vars, calls>>
    /\ UNCHANGED <<bootstrap_vars, series, data_vars>>

\* InterventionsWidget.add_intervention
add_intervention ==
    /\ Len(interventions) < MaxInterventions
    /\ \E accepted \in BOOLEAN, data \in DialogData, commit_fails \in BOOLEAN :
          /\ interventions' = add_intervention_of(interventions, accepted, data, commit_fails)
          /\ gui_call' = [op |-> "add_intervention",
                          rejected |-> ~accepted \/ ValidationError(data) # None]
    /\ selected' = Refreshed(interventions, interventions', selected)
    /\ UNCHANGED <<today, tabs, analysis_tab, metric_entries>>
    /\ UNCHANGED <<engine_vars, multi_vars, faults, repeat_vars, render_vars, settings_vars, calls>>
    /\ UNCHANGED <<bootstrap_vars, series, data_vars>>

\* InterventionsWidget.edit_selected_intervention
edit_selected_intervention ==
    /\ \E accepted \in BOOLEAN, data \in DialogData, commit_fails \in BOOLEAN :
          /\ interventions' = edit_selected_intervention_of(interventions, selected,
                                                            accepted, data, commit_fails)
          /\ gui_call' = [op |-> "edit_selected_intervention",
                          rejected |-> ~accepted \/ ValidationError(data) # None]
    /\ selected' = Refreshed(interventions, interventions', selected)
    /\ UNCHANGED <<today, tabs, analysis_tab, metric_entries>>
    /\ UNCHANGED <<engine_vars, multi_vars, faults, repeat_vars, render_vars, settings_vars, calls>>
    /\ UNCHANGED <<bootstrap_vars, series, data_vars>>

\* InterventionsWidget.close_selected_intervention
close_selected_intervention ==
    /\ \E commit_fails \in BOOLEAN :
          /\ interventions' = close_selected_intervention_of(interventions, selected,
                                                             today, commit_fails)
          /\ gui_call' = [op |-> "close_selected_intervention", rejected |-> FALSE]
    /\ selected' = Refreshed(interventions, interventions', selected)
    /\ UNCHANGED <<today, tabs, analysis_tab, metric_entries>>
    /\ UNCHANGED <<engine_vars, multi_vars, faults, repeat_vars, render_vars, settings_vars, calls>>
    /\ UNCHANGED <<bootstrap_vars, series, data_vars>>

\* The date changes at midnight.
midnight ==
    /\ today.day < LastDate
    /\ today' = Date(today.day + 1)
    /\ gui_call' = [op |-> "midnight", rejected |-> FALSE]
    /\ UNCHANGED <<interventions, selected, tabs, analysis_tab, metric_entries>>
    /\ UNCHANGED <<engine_vars, multi_vars, faults, repeat_vars, render_vars, settings_vars, calls>>
    /\ UNCHANGED <<bootstrap_vars, series, data_vars>>

InterventionsNext ==
    \/ select_row
    \/ add_intervention
    \/ edit_selected_intervention
    \/ close_selected_intervention
    \/ midnight

SpecInterventions == InterventionsInit /\ [][InterventionsNext]_vars

-----------------------------------------------------------------------------
(* The workspace, WorkspaceWidget: the interventions list above the tabs   *)
(* of the selected intervention, of which the Analysis tab runs the engine *)
(* on the entries logged for the intervention and exports the result.      *)

WorkspaceTabs == {"Metric Setup", "Logging", "Events", "Analysis"}

\* results_text.clear()
Cleared == NoLine

\* pd.to_datetime of a date: midnight of the day.
to_datetime(d) == timedelta(d.day)

\* The entries logged for an intervention: none, one a side of the start, or
\* MaxRows days of "Metric A" on each side with a day of "Metric B".
LoggedRows(id, name, first, n) ==
    [k \in 1..n |->
        [date |-> Date(first + k - 1),
         value |-> Int2F(IF first + k - 1 >= AnchorDay /\ k % 2 = 0 THEN 55 ELSE 50),
         metric_name |-> name,
         intervention_id |-> id]]

LoggedFor(id) ==
    {<<>>,
     LoggedRows(id, "Metric A", AnchorDay - 1, 2),
     LoggedRows(id, "Metric A", AnchorDay - MaxRows, 2 * MaxRows)
        \o LoggedRows(id, "Metric B", AnchorDay, 1)}

\* The interventions of the workspace, both starting on the anchor day.
StoredInterventions ==
    <<[id |-> Id(1), name |-> "Magnesium", start_date |-> Date(AnchorDay),
       projected_end_date |-> None, end_date |-> None, notes |-> ""],
      [id |-> Id(2), name |-> "Creatine", start_date |-> Date(AnchorDay),
       projected_end_date |-> None, end_date |-> None, notes |-> ""]>>

\* The values the user sets the two spin boxes to.
SpinValues == {1, MaxRows}

\* db.query(MetricEntry.metric_name).filter(intervention_id == id).distinct()
LoggedMetrics(table, id) ==
    LET names == {table[k].metric_name :
                     k \in {j \in DOMAIN table : table[j].intervention_id = id}}
    IN  IF names = {} THEN <<>>
        ELSE SortSeq(CHOOSE s \in [1..Cardinality(names) -> names] :
                        \A a \in names : \E k \in DOMAIN s : s[k] = a,
                     LAMBDA a, b : \E k \in DOMAIN MetricNames :
                        /\ MetricNames[k] = a
                        /\ \A j \in DOMAIN MetricNames : MetricNames[j] = b => k < j)

\* AnalysisWidget.refresh_metrics: the combo box lists the metrics logged
\* for the current intervention.
refresh_metrics(w, table) ==
    [w EXCEPT !.metric_combo =
        IF w.current_intervention_id = None THEN <<>>
        ELSE LoggedMetrics(table, w.current_intervention_id)]

\* Variant of set_current_intervention that leaves the two buttons as they are.
set_current_intervention_KeepButtons(w, intervention_id, table) ==
    refresh_metrics([w EXCEPT !.current_intervention_id = intervention_id,
                              !.control_group = intervention_id # None,
                              !.results_text = Cleared],
                    table)

\* AnalysisWidget.set_current_intervention
set_current_intervention(w, intervention_id, table) ==
    refresh_metrics([w EXCEPT !.current_intervention_id = intervention_id,
                              !.control_group = intervention_id # None,
                              !.results_text = Cleared,
                              !.save_button = FALSE,
                              !.export_html_button = FALSE],
                    table)

\* The loop of on_intervention_selected over the tabs.
TabsEnabled(intervention_id) ==
    [t \in WorkspaceTabs |-> IF t = "Metric Setup" THEN TRUE ELSE intervention_id # None]

\* The query of run_analysis and the frame built from it: the entries of the
\* metric for the intervention, by date.
EntriesFrame(table, intervention_id, metric_name) ==
    LET found == SortSeq(SelectSeq(table, LAMBDA e :
                                      /\ e.metric_name = metric_name
                                      /\ e.intervention_id = intervention_id),
                         LAMBDA a, b : a.date.day < b.date.day)
    IN  Frame({"date", "value", "metric_name"},
              [k \in DOMAIN found |->
                  [date |-> to_datetime(found[k].date),
                   value |-> found[k].value,
                   metric_name |-> found[k].metric_name]])

\* results with results["intervention"] and results["metric"] set.
Labelled(res, intervention_name, metric_name) ==
    [k \in DOMAIN res \cup {"intervention", "metric"} |->
        IF k = "intervention" THEN intervention_name
        ELSE IF k = "metric" THEN metric_name
        ELSE res[k]]

\* AnalysisWidget.run_analysis on the widget w: the widget after it.  The
\* user chose metric_name in the combo box and set the spin boxes to b_days
\* and i_days; query_fails: a query raises; scipy: the build of the process.
run_analysis_of(w, table, rows, metric_name, b_days, i_days, query_fails, scipy) ==
    LET intervention_id == w.current_intervention_id
    IN  IF intervention_id = None \/ metric_name = "" THEN w
        ELSE IF query_fails THEN w
        ELSE IF RowOf(table, intervention_id) = {} THEN w
        ELSE LET intervention == table[CHOOSE k \in RowOf(table, intervention_id) : TRUE]
                 df == EntriesFrame(rows, intervention_id, metric_name)
             IN  IF df.rows = <<>> THEN w
                 ELSE CHOOSE after \in
                        {IF o.pc = "raise" THEN w
                         ELSE IF display_results_of(o.result) = TypeError THEN w
                         ELSE [w EXCEPT
                                 !.results_text = display_results_of(o.result).text,
                                 !.current_results =
                                     Labelled(o.result, intervention.name, metric_name),
                                 !.save_button = TRUE,
                                 !.export_html_button = TRUE]
                         : o \in {Outcomes(df, to_datetime(intervention.start_date),
                                           b_days, i_days)[scipy]}} : TRUE

\* generate_html_report on a file that can or cannot be opened for writing.
generate_html_report_to(res, writable) ==
    IF writable THEN generate_html_report_of(res).returned ELSE FALSE

\* The widgets as WorkspaceWidget.__init__ leaves them: no intervention
\* selected.
NewAnalysisWidget ==
    [current_intervention_id |-> None,
     control_group |-> FALSE,
     metric_combo |-> <<>>,
     results_text |-> Cleared,
     save_button |-> FALSE,
     export_html_button |-> FALSE,
     current_results |-> None]

WorkspaceInit ==
    /\ interventions = StoredInterventions
    /\ \E e1 \in LoggedFor(Id(1)), e2 \in LoggedFor(Id(2)) : metric_entries = e1 \o e2
    /\ selected = {}
    /\ today = Date(LastDay)
    /\ gui_call = None
    /\ tabs = TabsEnabled(None)
    /\ analysis_tab = NewAnalysisWidget
    /\ pc = None
    /\ result = None
    /\ NoEngine
    /\ NoBootstrap
    /\ NoTrend
    /\ NoData

\* WorkspaceWidget.on_intervention_selected(intervention_id): the selection of
\* the list changed, or the workspace was refreshed.
on_intervention_selected ==
    /\ \E intervention_id \in
             {None} \cup {interventions[k].id : k \in DOMAIN interventions} :
          /\ selected' = IF intervention_id = None THEN {} ELSE {intervention_id}
          /\ tabs' = TabsEnabled(intervention_id)
          /\ analysis_tab' =
                set_current_intervention(analysis_tab, intervention_id, metric_entries)
          /\ gui_call' = [op |-> "on_intervention_selected",
                          intervention_id |-> intervention_id,
                          before |-> analysis_tab]
    /\ UNCHANGED <<interventions, today, metric_entries>>
    /\ UNCHANGED <<engine_vars, multi_vars, faults, repeat_vars, render_vars, settings_vars, calls>>
    /\ UNCHANGED <<bootstrap_vars, series, data_vars>>

\* AnalysisWidget.run_analysis, the Run Analysis button of an enabled tab.
run_analysis ==
    /\ tabs["Analysis"]
    /\ analysis_tab.control_group
    /\ \E choice \in DOMAIN analysis_tab.metric_combo \cup {0} :
       \E b_days \in SpinValues, i_days \in SpinValues :
       \E query_fails \in BOOLEAN, scipy \in ScipyBuilds :
          /\ analysis_tab' =
                run_analysis_of(analysis_tab, interventions, metric_entries,
                                IF choice = 0 THEN "" ELSE analysis_tab.metric_combo[choice],
                                b_days, i_days, query_fails, scipy)
          /\ gui_call' = [op |-> "run_analysis",
                          intervention_id |-> analysis_tab.current_intervention_id,
                          before |-> analysis_tab]
    /\ UNCHANGED <<interventions, selected, today, tabs, metric_entries>>
    /\ UNCHANGED <<engine_vars, multi_vars, faults, repeat_vars, render_vars, settings_vars, calls>>
    /\ UNCHANGED <<bootstrap_vars, series, data_vars>>

\* AnalysisWidget.export_html_report, the Export HTML Report button when it
\* is enabled, with a file name chosen in the dialog.
export_html_report ==
    /\ tabs["Analysis"]
    /\ analysis_tab.export_html_button
    /\ analysis_tab.current_results # None
    /\ \E writable \in BOOLEAN :
          gui_call' = [op |-> "export_html_report",
                       intervention_id |-> analysis_tab.current_intervention_id,
                       before |-> analysis_tab,
                       writable |-> writable,
                       success |-> generate_html_report_to(analysis_tab.current_results,
                                                           writable)]
    /\ UNCHANGED <<interventions, selected, today, tabs, analysis_tab, metric_entries>>
    /\ UNCHANGED <<engine_vars, multi_vars, faults, repeat_vars, render_vars, settings_vars, calls>>
    /\ UNCHANGED <<bootstrap_vars, series, data_vars>>

WorkspaceNext ==
    \/ on_intervention_selected
    \/ run_analysis
    \/ export_html_report

SpecWorkspace == WorkspaceInit /\ [][WorkspaceNext]_vars

-----------------------------------------------------------------------------
(* The vocabulary of the claims, stated on the input of the call and on    *)
(* the returned value, not on the engine's own steps.                      *)

Rows == metrics.rows
Present(k) == Rows[k].value # NaN
InBaselineWindow(k) ==
    /\ start_date - baseline_days * TicksPerDay <= Rows[k].date
    /\ Rows[k].date < start_date
InInterventionWindow(k) ==
    /\ start_date <= Rows[k].date
    /\ Rows[k].date < start_date + intervention_days * TicksPerDay

\* The samples (row numbers) of each window: in the window, with a value.
BaselineSamples == {k \in DOMAIN Rows : Present(k) /\ InBaselineWindow(k)}
InterventionSamples == {k \in DOMAIN Rows : Present(k) /\ InInterventionWindow(k)}

Returned == pc = "return"
IsError == Returned /\ "error" \in DOMAIN result
IsFull == Returned /\ "error" \notin DOMAIN result

ErrorKeys == {"error", "baseline_count", "intervention_count"}
FullKeys == {"baseline_window", "intervention_window", "analysis", "warnings"}

HasWarning(text) == \E w \in DOMAIN result.warnings : result.warnings[w].text = text

\* The counts a returned value reports, in either shape.
ReportedBaselineCount ==
    IF "error" \in DOMAIN result THEN result.baseline_count
    ELSE result.baseline_window.count
ReportedInterventionCount ==
    IF "error" \in DOMAIN result THEN result.intervention_count
    ELSE result.intervention_window.count

CalendarDay(k) == Rows[k].date \div TicksPerDay
TimeOfDay(k) == Rows[k].date % TicksPerDay

RECURSIVE SumOfValues(_)
SumOfValues(S) ==
    IF S = {} THEN 0
    ELSE LET k == CHOOSE j \in S : TRUE
         IN  Rows[k].value.num + SumOfValues(S \ {k})

\* The mean of the samples S (S non-empty; values are integers).
MeanOf(S) == Rat(SumOfValues(S), Cardinality(S))
\* Every sample of S has the same value.
Constant(S) == \A j \in S, k \in S : Rows[j].value = Rows[k].value

Earliest(S) == CHOOSE t \in {Rows[k].date : k \in S} : \A k \in S : t <= Rows[k].date
Latest(S) == CHOOSE t \in {Rows[k].date : k \in S} : \A k \in S : t >= Rows[k].date

-----------------------------------------------------------------------------
(* C1: the engine returns the error shape if and only if the baseline      *)
(* window or the intervention window holds fewer than MIN_DATA_POINTS      *)
(* samples with a value; the error shape then reports the two windows'     *)
(* sample counts and holds no analysis, window or warnings key.            *)
C1_ErrorShapeIffTooFewSamples ==
    Returned =>
        /\ ("error" \in DOMAIN result) <=>
              \/ Cardinality(BaselineSamples) < MIN_DATA_POINTS
              \/ Cardinality(InterventionSamples) < MIN_DATA_POINTS
        /\ "error" \in DOMAIN result =>
              /\ result.baseline_count = Cardinality(BaselineSamples)
              /\ result.intervention_count = Cardinality(InterventionSamples)
              /\ DOMAIN result \cap FullKeys = {}

\* An error shape returned because the intervention window alone is one sample
\* short, a missing value among its rows.
C1_Witness ==
    /\ IsError
    /\ result.baseline_count >= MIN_DATA_POINTS
    /\ result.intervention_count = MIN_DATA_POINTS - 1
    /\ \E k \in DOMAIN Rows : InInterventionWindow(k) /\ ~Present(k)

(* C2: every returned value has exactly the keys of the error shape or     *)
(* exactly the keys of the full shape, never a mix of the two.             *)
C2_ShapesExclusive ==
    Returned => DOMAIN result = ErrorKeys \/ DOMAIN result = FullKeys

\* A full result that carries warnings.
C2_Witness == IsFull /\ DOMAIN result = FullKeys /\ result.warnings # <<>>

WindowDays ==
    ((start_date - baseline_days * TicksPerDay) \div TicksPerDay) ..
    ((start_date + intervention_days * TicksPerDay - 1) \div TicksPerDay)
\* Every calendar day the windows touch has exactly one sample with a value.
OneValuedSamplePerDay ==
    \A d \in WindowDays :
        Cardinality({k \in DOMAIN Rows : Present(k) /\ CalendarDay(k) = d}) = 1
\* All samples are taken at the same time of day.
SameTimeOfDay == \A j \in DOMAIN Rows, k \in DOMAIN Rows : TimeOfDay(j) = TimeOfDay(k)

\* The counts of every returned value are those of the two window definitions.
CountsAreWindowCounts ==
    Returned =>
        /\ ReportedBaselineCount = Cardinality(BaselineSamples)
        /\ ReportedInterventionCount = Cardinality(InterventionSamples)
        /\ ReportedBaselineCount + ReportedInterventionCount
              <= Cardinality({k \in DOMAIN Rows : Present(k)})

(* C4 as stated: the baseline count is the number of valued samples with   *)
(* start_date - baseline_days <= date < start_date, the intervention count *)
(* the number with start_date <= date < start_date + intervention_days     *)
(* (no sample counted twice, missing values never counted); and with       *)
(* exactly one valued sample per calendar day the counts equal             *)
(* baseline_days and intervention_days.                                    *)
C4_CountsAsStated ==
    /\ CountsAreWindowCounts
    /\ Returned /\ OneValuedSamplePerDay =>
          /\ ReportedBaselineCount = baseline_days
          /\ ReportedInterventionCount = intervention_days

(* C4, amended: the counts are the window counts as above; and with        *)
(* exactly one valued sample per calendar day, all taken at the same time  *)
(* of day, the counts equal baseline_days and intervention_days.           *)
C4_CountsSameTimeOfDay ==
    /\ CountsAreWindowCounts
    /\ Returned /\ OneValuedSamplePerDay /\ SameTimeOfDay =>
          /\ ReportedBaselineCount = baseline_days
          /\ ReportedInterventionCount = intervention_days

\* A full result on one sample a day, one of them dated exactly start_date,
\* for windows of different sizes.
C4_Witness ==
    /\ IsFull
    /\ OneValuedSamplePerDay /\ SameTimeOfDay
    /\ \E k \in DOMAIN Rows : Rows[k].date = start_date
    /\ baseline_days # intervention_days

ZeroVarianceText == "Zero variance in both baseline and intervention data."

SingleIdentity ==
    \/ "metric_name" \notin metrics.columns
    \/ Cardinality({Rows[k].metric_name : k \in DOMAIN Rows}) <= 1

ConstantUnequalGroups ==
    /\ SingleIdentity
    /\ Cardinality(BaselineSamples) >= MIN_DATA_POINTS
    /\ Cardinality(InterventionSamples) >= MIN_DATA_POINTS
    /\ Constant(BaselineSamples) /\ Constant(InterventionSamples)
    /\ ~Constant(BaselineSamples \cup InterventionSamples)

PooledStdOfCall ==
    LET b == ValueColumn(baseline_df(metrics, start_date, baseline_days))
        i == ValueColumn(intervention_df(metrics, start_date, intervention_days))
    IN  pooled_std(Len(b), Len(i), std(b), std(i))

C8_MeanDifferenceAndSign ==
    IsFull =>
        /\ result.analysis.mean_difference =
              RatSub(MeanOf(InterventionSamples), MeanOf(BaselineSamples))
        /\ SignOf(result.analysis.mean_difference) > 0 <=>
              SumOfValues(InterventionSamples) * Cardinality(BaselineSamples)
                 > SumOfValues(BaselineSamples) * Cardinality(InterventionSamples)
        /\ ~IsZero(PooledStdOfCall) =>
              SignOf(result.analysis.cohens_d) = SignOf(result.analysis.mean_difference)

\* A negative effect size: varying values, the intervention mean the lower.
C8_Witness ==
    /\ IsFull
    /\ ~Constant(BaselineSamples)
    /\ SignOf(result.analysis.cohens_d) < 0

\* Latest sample date minus earliest sample date, in whole days, plus 1.
SpanOf(S) == (Latest(S) - Earliest(S)) \div TicksPerDay + 1
\* n samples a day apart, the last on the calendar day before the anchor's.
DailyUpToAnchor(S, n) ==
    /\ Cardinality(S) = n
    /\ {Rows[k].date : k \in S} = {Earliest(S) + j * TicksPerDay : j \in 0..(n - 1)}
    /\ Latest(S) \div TicksPerDay = start_date \div TicksPerDay - 1

BaselineDurationText == "Insufficient baseline duration"
InterventionDurationText == "Insufficient intervention duration"

(* C9: in every full result the "Insufficient baseline duration" warning   *)
(* is present if and only if the baseline span (latest minus earliest      *)
(* sample date in days, plus 1) is below MIN_BASELINE_DAYS, and likewise   *)
(* the intervention warning against MIN_INTERVENTION_DAYS; 7 consecutive   *)
(* daily baseline samples ending the day before start_date give no         *)
(* baseline warning at threshold 7, and 5 give one.                        *)
C9_DurationWarnings ==
    IsFull =>
        /\ HasWarning(BaselineDurationText) <=>
              SpanOf(BaselineSamples) < MIN_BASELINE_DAYS
        /\ HasWarning(InterventionDurationText) <=>
              SpanOf(InterventionSamples) < MIN_INTERVENTION_DAYS
        /\ DailyUpToAnchor(BaselineSamples, 7) => ~HasWarning(BaselineDurationText)
        /\ DailyUpToAnchor(BaselineSamples, 5) => HasWarning(BaselineDurationText)

\* Seven daily baseline samples up to the anchor: no baseline warning, while
\* the shorter intervention data is warned about.
C9_Witness ==
    /\ IsFull
    /\ DailyUpToAnchor(BaselineSamples, 7)
    /\ ~HasWarning(BaselineDurationText)
    /\ HasWarning(InterventionDurationText)

\* Calendar day of the latest sample minus calendar day of the earliest, plus 1.
CalendarSpanOf(S) ==
    Latest(S) \div TicksPerDay - Earliest(S) \div TicksPerDay + 1

(* C10: the span of the duration warnings is counted on calendar-day       *)
(* boundaries (calendar day of the latest sample minus calendar day of the *)
(* earliest, plus 1), so samples on 7 consecutive calendar days never      *)
(* trigger a duration warning at threshold 7, whatever their times of day. *)
C10_CalendarDaySpan ==
    IsFull =>
        /\ HasWarning(BaselineDurationText) <=>
              CalendarSpanOf(BaselineSamples) < MIN_BASELINE_DAYS
        /\ HasWarning(InterventionDurationText) <=>
              CalendarSpanOf(InterventionSamples) < MIN_INTERVENTION_DAYS


PowerText == "Intervention duration is shorter than baseline. Power may be reduced."

(* C11: in every full result the reduced-power warning is present if and   *)
(* only if the requested intervention_days is strictly smaller than the    *)
(* requested baseline_days, whatever the number of samples in each window. *)
C11_PowerWarningIffShorter ==
    IsFull => (HasWarning(PowerText) <=> intervention_days < baseline_days)

\* The warning on a shorter intervention window that holds more samples than
\* the baseline window.
C11_Witness ==
    /\ IsFull
    /\ HasWarning(PowerText)
    /\ Cardinality(InterventionSamples) > Cardinality(BaselineSamples)

\* The metric_name column holds more than one distinct value.
SeveralIdentities ==
    /\ "metric_name" \in metrics.columns
    /\ \E j \in DOMAIN Rows, k \in DOMAIN Rows : Rows[j].metric_name # Rows[k].metric_name

(* C14: for any series whose metric_name column holds more than one        *)
(* distinct value the call raises an error and returns no result, also     *)
(* when the windows hold fewer than MIN_DATA_POINTS samples and when the   *)
(* extra identity is only on rows outside both windows.                    *)
C14_MixedMetricsRaise ==
    pc # "call" /\ SeveralIdentities =>
        /\ pc = "raise"
        /\ result.raised = "ValueError"
        /\ DOMAIN result \cap (ErrorKeys \cup FullKeys) = {}

\* The error raised on a series whose windows are short of samples and whose
\* second identity lies on a row outside both windows.
C14_Witness ==
    /\ pc = "raise"
    /\ Cardinality(BaselineSamples) < MIN_DATA_POINTS
    /\ \E k \in DOMAIN Rows :
          /\ Rows[k].metric_name = "Metric B"
          /\ ~InBaselineWindow(k) /\ ~InInterventionWindow(k)

AnalysisKeys == {"mean_difference", "cohens_d", "t_test", "mann_whitney_u", "bootstrap_ci"}

(* C17: every full result carries baseline_window, intervention_window,    *)
(* analysis and warnings, where analysis holds mean_difference, cohens_d,  *)
(* t_test.{statistic, p_value}, mann_whitney_u.{statistic, p_value} and    *)
(* bootstrap_ci.{lower, upper} (bootstrap_ci present, possibly null).      *)
C17_FullShapeWithBootstrapCI ==
    IsFull =>
        /\ FullKeys \subseteq DOMAIN result
        /\ AnalysisKeys \subseteq DOMAIN result.analysis
        /\ {"statistic", "p_value"} \subseteq DOMAIN result.analysis.t_test
        /\ {"statistic", "p_value"} \subseteq DOMAIN result.analysis.mann_whitney_u
        /\ \/ result.analysis.bootstrap_ci = None
           \/ {"lower", "upper"} \subseteq DOMAIN result.analysis.bootstrap_ci

-----------------------------------------------------------------------------
(* Claims on analyze_multiple_metrics (specification SpecMulti).           *)

\* The dict analyze_multiple_metrics returned: key -> entry.
ReturnedEntry(key) ==
    LET k == CHOOSE k \in DOMAIN result.results : result.results[k].key = key
    IN  result.results[k].value
ReturnedKeys == {result.results[k].key : k \in DOMAIN result.results}

MultiReturned == pc = "return"

MultipleComparisonText == "Multiple Comparison Risk"
MultipleComparisonWarnings ==
    {w \in DOMAIN result.global_warnings :
        result.global_warnings[w].text = MultipleComparisonText}

IsFullEntry(e) == DOMAIN e = FullKeys
IsErrorShapeEntry(e) == DOMAIN e = ErrorKeys
IsFailureEntry(e) == DOMAIN e = {"error"}

(* C12: global_warnings holds exactly one multiple-comparison warning when *)
(* metrics_map has more than MAX_SAFE_METRICS metrics and none when it has *)
(* not, whatever the individual metrics yield.                             *)
C12_OneGlobalWarningIffTooMany ==
    MultiReturned =>
        IF Len(metrics_map) > MAX_SAFE_METRICS
        THEN Cardinality(MultipleComparisonWarnings) = 1
        ELSE Cardinality(MultipleComparisonWarnings) = 0

\* One warning for a dict of more than MAX_SAFE_METRICS metrics among which
\* are a full result, an insufficient-data error shape and a failure.
C12_Witness ==
    /\ MultiReturned
    /\ Len(metrics_map) = MAX_SAFE_METRICS + 1
    /\ Cardinality(MultipleComparisonWarnings) = 1
    /\ \E k \in ReturnedKeys : IsFullEntry(ReturnedEntry(k))
    /\ \E k \in ReturnedKeys : IsErrorShapeEntry(ReturnedEntry(k))
    /\ \E k \in ReturnedKeys : IsFailureEntry(ReturnedEntry(k))

\* The rows of the k-th metric alone: those that carry its name, where the
\* frame names its rows.
FrameOfMetricAlone(k) ==
    LET df == metrics_map[k].df
    IN  IF "metric_name" \in df.columns
        THEN [columns |-> df.columns,
              rows |-> SelectSeq(df.rows, LAMBDA r : r.metric_name = metrics_map[k].key)]
        ELSE df
\* What the single-metric analysis does on the k-th metric alone.
AloneOutcome(k) ==
    Outcomes(FrameOfMetricAlone(k), start_date, baseline_days,
             intervention_days)[scipy_build]

(* C13: analyze_multiple_metrics returns an entry for every key of         *)
(* metrics_map and never raises; the entry of a metric whose single-metric *)
(* analysis raises is {error: <message>}, and every other metric's entry   *)
(* is what calculate_baseline_vs_intervention returns for that metric.     *)
C13_EveryMetricHasItsEntry ==
    /\ pc # "raise"
    /\ MultiReturned =>
          /\ ReturnedKeys = {metrics_map[k].key : k \in DOMAIN metrics_map}
          /\ Len(result.results) = Len(metrics_map)
          /\ \A k \in DOMAIN metrics_map :
                LET e == ReturnedEntry(metrics_map[k].key)
                IN  IF AloneOutcome(k).pc = "raise"
                    THEN IsFailureEntry(e) /\ e.error = str(AloneOutcome(k).result)
                    ELSE e = AloneOutcome(k).result

\* A failure recorded for one metric, with a full result for a metric that
\* is analysed after it and for one that shares its frame with another.
C13_Witness ==
    /\ MultiReturned
    /\ \E j \in DOMAIN metrics_map, k \in DOMAIN metrics_map :
          /\ j < k
          /\ IsFailureEntry(ReturnedEntry(metrics_map[j].key))
          /\ IsFullEntry(ReturnedEntry(metrics_map[k].key))
    /\ \E k \in DOMAIN metrics_map :
          /\ metrics_map[k].df = SharedFrame
          /\ IsFullEntry(ReturnedEntry(metrics_map[k].key))

-----------------------------------------------------------------------------
(* Claims on the engine with a failing library (specification SpecFault).  *)

TTestText == "T-test failed"
MannWhitneyText == "Mann-Whitney U test failed"

\* Both windows pass the data-point gate.
PastGate ==
    /\ Cardinality(BaselineSamples) >= MIN_DATA_POINTS
    /\ Cardinality(InterventionSamples) >= MIN_DATA_POINTS
\* The engine called ttest_ind (not both windows are constant) and it raised.
TTestRaised ==
    /\ PastGate
    /\ "ttest_ind" \in faults
    /\ ~(Constant(BaselineSamples) /\ Constant(InterventionSamples))
\* The engine called mannwhitneyu and it raised.
MannWhitneyRaised == PastGate /\ "mannwhitneyu" \in faults

\* The U statistic of the intervention samples against the baseline samples.
UOfSamples ==
    LET pairs == InterventionSamples \X BaselineSamples
        above == {p \in pairs : Rows[p[1]].value.num > Rows[p[2]].value.num}
        level == {p \in pairs : Rows[p[1]].value.num = Rows[p[2]].value.num}
    IN  Rat(2 * Cardinality(above) + Cardinality(level), 2)

\* The analysis of the same call when mannwhitneyu does not fail.
AnalysisWithoutMannWhitneyFailure ==
    OutcomesUnder(metrics, start_date, baseline_days, intervention_days,
                  faults \ {"mannwhitneyu"})["returns_on_identical"].result.analysis

(* C15: if the Welch t-test raises, the call still returns the full shape  *)
(* with a "T-test failed" warning, null t_test.statistic and p_value, and  *)
(* the Mann-Whitney test run and reported; a Mann-Whitney failure adds its *)
(* warning, nulls only the mann_whitney_u fields and leaves the t_test     *)
(* fields, mean_difference and cohens_d as they are without the failure.   *)
C15_OneTestFailingLeavesTheOther ==
    /\ pc # "call" /\ TTestRaised =>
          /\ IsFull
          /\ HasWarning(TTestText)
          /\ result.analysis.t_test.statistic = None
          /\ result.analysis.t_test.p_value = None
          /\ ~MannWhitneyRaised =>
                /\ result.analysis.mann_whitney_u.statistic = UOfSamples
                /\ result.analysis.mann_whitney_u.p_value # None
                /\ ~HasWarning(MannWhitneyText)
    /\ pc # "call" /\ MannWhitneyRaised => IsFull /\ HasWarning(MannWhitneyText)
    /\ IsFull /\ HasWarning(MannWhitneyText) =>
          /\ result.analysis.mann_whitney_u.statistic = None
          /\ result.analysis.mann_whitney_u.p_value = None
          /\ result.analysis.t_test = AnalysisWithoutMannWhitneyFailure.t_test
          /\ result.analysis.mean_difference =
                AnalysisWithoutMannWhitneyFailure.mean_difference
          /\ result.analysis.cohens_d = AnalysisWithoutMannWhitneyFailure.cohens_d

\* A failed t-test next to a reported Mann-Whitney test.
C15_Witness ==
    /\ IsFull
    /\ TTestRaised /\ ~MannWhitneyRaised
    /\ HasWarning(TTestText)
    /\ result.analysis.t_test.statistic = None
    /\ result.analysis.mann_whitney_u.statistic # None


-----------------------------------------------------------------------------
(* Claims on a second call of the engine, on the same rows.                *)

CalledAgain == result_again # None
SameOrder == shuffled = metrics
Windows == {"baseline_window", "intervention_window"}

\* The rounding error two float sums of the same n numbers can differ by:
\* |a - b| <= 2 * n * 2^-MantissaBits * (the sum of their magnitudes), for
\* the means a and b of the samples S.
WithinRounding(a, b, S) ==
    LET d == RatSub(a, b)
    IN  Abs(d.num) * MaxExact <= 2 * d.den * SumOfValues(S)

(* C16: the result depends only on the multiset of samples, the anchor,    *)
(* the window sizes and the thresholds: any permutation of the input rows  *)
(* and any repeated call with the identical input yield an identical       *)
(* result (same shape, counts, statistics and warnings).                   *)
C16_PermutationGivesIdenticalResult ==
    CalledAgain => result_again = result

\* What the engine, which sums each window in row order, does keep: a repeated
\* call with the identical input yields an identical result, and a call on a
\* permutation of the rows yields the same shape, counts, window bounds and
\* warnings, the same Mann-Whitney outcome and the same null statistics, with
\* window means that agree to within the rounding of a float sum.
SecondCallAgreesUpToRounding ==
    CalledAgain =>
        /\ SameOrder => result_again = result
        /\ DOMAIN result_again = DOMAIN result
        /\ result_again.warnings = result.warnings
        /\ \A w \in Windows :
              /\ result_again[w].count = result[w].count
              /\ result_again[w].start = result[w].start
              /\ result_again[w].end = result[w].end
        /\ WithinRounding(result_again.baseline_window.mean,
                          result.baseline_window.mean, BaselineSamples)
        /\ WithinRounding(result_again.intervention_window.mean,
                          result.intervention_window.mean, InterventionSamples)
        /\ result_again.analysis.mann_whitney_u = result.analysis.mann_whitney_u
        /\ (result_again.analysis.t_test.statistic = None)
              <=> (result.analysis.t_test.statistic = None)

\* A second call on the baseline rows in another order, whose baseline mean
\* is not the first call's.
MeanDependsOnRowOrder ==
    /\ CalledAgain

    /\ ~SameOrder
    /\ IsFull
    /\ result_again.baseline_window.mean # result.baseline_window.mean
    /\ result_again.baseline_window.count = result.baseline_window.count


-----------------------------------------------------------------------------
(* Claims on the rendering of a full result.                               *)

\* The value of the field at path of the dict d: None if it is null or absent.
RECURSIVE At(_, _)
At(d, path) ==
    IF d = None \/ path[1] \notin DOMAIN d THEN None
    ELSE IF Len(path) = 1 THEN d[path[1]]
    ELSE At(d[path[1]], Tail(path))

NullOrAbsent(path) == At(result, path) = None

ReportWritten == report # None /\ report.returned
DisplaySet == display # None /\ "text" \in DOMAIN display

\* The piece of text that a page (of the report or of the display) shows for
\* the field at path.
PieceOf(text, key) == IF text \in {NA, NoLine} THEN text ELSE text[key]
Shows(page, path) ==
    IF path[1] \in WindowKeys
    THEN IF Len(path) = 2 THEN page[path[1]][path[2]]
         ELSE PieceOf(page[path[1]].trend, path[3])
    ELSE IF Len(path) = 2 THEN page[path[2]]
    ELSE IF path[2] = "bootstrap_ci" THEN PieceOf(page.bootstrap_ci, path[3])
    ELSE IF path[2] = "t_test"
    THEN (IF path[3] = "statistic" THEN page.t_statistic ELSE page.t_p_value)
    ELSE (IF path[3] = "statistic" THEN page.u_statistic ELSE page.u_p_value)

\* The display shows no test statistic, only the p-values.
DisplayedFields ==
    NumericFields \ {<<"analysis", "t_test", "statistic">>,
                     <<"analysis", "mann_whitney_u", "statistic">>}

(* C18: generate_html_report and display_results render every null or      *)
(* absent numeric field of a full result as "N/A" and never as 0:          *)
(* mean_difference, cohens_d, window mean and std, bootstrap_ci bounds,    *)
(* window trend, and the statistic and p_value of both hypothesis tests.   *)
C18_NullOrAbsentRendersNA ==
    (report # None /\ display # None) =>
        \A path \in NumericFields :
           NullOrAbsent(path) =>
              /\ ReportWritten
              /\ Shows(report.html, path) = NA
              /\ path \in DisplayedFields =>
                    /\ DisplaySet
                    /\ Shows(display.text, path) = NA

\* What the two renderers do keep: whenever they render at all, a null or
\* absent statistic or p_value of a test, and a null or absent trend slope,
\* show as "N/A".
GuardedFields ==
    {<<"analysis", t, f>> : t \in {"t_test", "mann_whitney_u"},
                            f \in {"statistic", "p_value"}}
       \cup {<<w, "trend", "slope">> : w \in WindowKeys}
TestsAndTrendsRenderNA ==
    \A path \in GuardedFields :
       NullOrAbsent(path) =>
          /\ ReportWritten => Shows(report.html, path) = NA
          /\ (DisplaySet /\ path \in DisplayedFields) => Shows(display.text, path) = NA

\* An absent mean_difference that the report shows as 0.00.
AbsentShownAsZero ==
    /\ ReportWritten
    /\ "mean_difference" \notin DOMAIN result.analysis
    /\ report.html.mean_difference = format(Zero, 2)

\* A null cohens_d on which no report is written and the display raises.
NullBreaksRendering ==
    /\ report # None /\ ~report.returned
    /\ display = TypeError
    /\ "cohens_d" \in DOMAIN result.analysis
    /\ result.analysis.cohens_d = None


-----------------------------------------------------------------------------
(* Claims on the SettingsManager.                                          *)

Reloaded == reloaded # None
IsJsonFile == settings_file # None /\ settings_file # Corrupt

\* The new manager holds the file's value for every setting the file names
\* and the default for every other.
FileOverridesItsKeys ==
    /\ DOMAIN reloaded.settings = DOMAIN defaults
    /\ \A k \in DOMAIN defaults :
          reloaded.settings[k] =
             IF k \in DOMAIN settings_file THEN settings_file[k].number
             ELSE defaults[k]

\* A step that is a call of set changes exactly the setting it names, and
\* nothing if it names none.
SetChangesExactlyItsKey ==
    (call' # None /\ call'.op = "set") =>
        /\ DOMAIN settings' = DOMAIN settings
        /\ \A k \in DOMAIN settings :
              settings'[k] = IF k = call'.key THEN call'.value ELSE settings[k]

\* C19 on the new manager, as stated.
ReloadedAsStated ==
    Reloaded =>
        /\ settings_file = None => reloaded.settings = defaults
        /\ IsJsonFile => FileOverridesItsKeys
        /\ saved # None => reloaded.settings = saved.settings

ReloadedWhereNoIOError ==
    Reloaded =>
        /\ settings_file = None => reloaded.settings = defaults
        /\ (IsJsonFile /\ reloaded.read) => FileOverridesItsKeys
        /\ (saved # None /\ saved.written /\ reloaded.read) =>
              reloaded.settings = saved.settings

-----------------------------------------------------------------------------
(* Claims on concurrent engine calls and their thresholds.                 *)

Finished(t) == calls[t].pc = "done"
WarnsOf(t, text) ==
    \E w \in DOMAIN calls[t].result.warnings : calls[t].result.warnings[w].text = text

\* The call of thread t applied the thresholds th: the gate on the samples of
\* each window, and the warnings on the spans of its daily samples.
Applied(t, th) ==
    LET r == calls[t].result
        n == calls[t].samples
    IN  /\ ("error" \in DOMAIN r) <=> (n < th.min_data_points)
        /\ "error" \notin DOMAIN r =>
              /\ WarnsOf(t, BaselineDurationText) <=> (n < th.min_baseline_days)
              /\ WarnsOf(t, InterventionDurationText) <=> (n < th.min_intervention_days)

(* C20: the four thresholds are captured when an analysis call starts: two *)
(* interleaved analysis calls configured with different thresholds each    *)
(* apply their own thresholds to the data-point gate and the span          *)
(* warnings, and a settings change that happens while a call runs never    *)
(* changes that call's outcome.                                            *)
C20_CallsApplyTheirOwnThresholds ==
    \A t \in Threads :
       Finished(t) =>
          /\ Applied(t, calls[t].thresholds)
          /\ calls[t].result = ThreadOutcome(calls[t]).result

\* What the engine does keep: every call applies the thresholds of the
\* defaults, whatever was configured and whatever the settings are by then.
CallsApplyTheModuleConstants ==
    \A t \in Threads :
       Finished(t) =>
          /\ Applied(t, defaults)
          /\ calls[t].result = ThreadOutcome(calls[t]).result

\* Two finished calls configured differently, the settings changed since,
\* of which the one with the stricter gate returned a full result on fewer
\* samples than its gate asks for.
GateOfTheCallIgnored ==
    /\ \A t \in Threads : Finished(t)
    /\ calls[1].thresholds # calls[2].thresholds
    /\ settings # calls[1].thresholds
    /\ calls[1].samples < calls[1].thresholds.min_data_points
    /\ "error" \notin DOMAIN calls[1].result

-----------------------------------------------------------------------------
(* C21.  The bootstrap interval.                                           *)

BootstrapReturned == pc = "return"
EitherGroupEmpty == Len(group1) = 0 \/ Len(group2) = 0

\* C21: bootstrap_ci returns bounds with lower <= upper for any two
\* non-empty groups and any resample count >= 1, each resample drawing as
\* many values as the group holds; it returns no interval when either group
\* is empty.
C21_LowerAtMostUpperOrAbsent ==
    BootstrapReturned =>
       IF EitherGroupEmpty
       THEN result = None
       ELSE /\ Len(diffs) = n_bootstraps
            /\ n_bootstraps >= 1
            /\ DOMAIN result = {"lower", "upper"}
            /\ ~RatLess(result.upper, result.lower)

\* bootstrap_ci returned an interval with lower < upper.
C21_Witness ==
    /\ BootstrapReturned
    /\ ~EitherGroupEmpty
    /\ n_bootstraps > 1
    /\ RatLess(result.lower, result.upper)

-----------------------------------------------------------------------------
(* C22.  The trend of a window.                                            *)

TrendReturned == pc = "return"
StrictlyIncreasing ==
    \A k \in 1..(Len(series) - 1) :
       RatLess(series[k].value, series[k + 1].value)
Tested(r) == r # None /\ r.p_value \notin {One, None}

\* C22: calculate_trend returns slope = 0 with no significance test when
\* all values of the window are identical and at least 2 distinct time
\* points exist, a strictly positive slope for strictly increasing values,
\* and an absent result, never a zero slope, when the window has fewer than
\* 2 points or all points share one timestamp.
C22_FlatIncreasingOrAbsent ==
    TrendReturned =>
       /\ TrendUndefined(series) => result = None
       /\ ~TrendUndefined(series) /\ AllValuesIdentical(series) =>
             /\ result # None
             /\ result.slope = Zero
             /\ ~Tested(result)
       /\ ~TrendUndefined(series) /\ StrictlyIncreasing =>
             /\ result # None
             /\ RatLess(Zero, result.slope)

\* A window of strictly increasing values with two points on one
\* timestamp got a positive slope.
C22_Witness ==
    /\ TrendReturned
    /\ ~TrendUndefined(series)
    /\ StrictlyIncreasing
    /\ \E k \in 1..(Len(series) - 1) : series[k].date = series[k + 1].date
    /\ RatLess(Zero, result.slope)
    /\ Tested(result)

-----------------------------------------------------------------------------
(* C23, C24.  Import and export of the metrics table.                      *)

Called(op) == last_call # None /\ last_call.op = op
ImportSucceeded == Called("import_from_csv") /\ result.success
\* The table holds rows, so that an import succeeded before the export.
ExportFollowsImport ==
    /\ Called("export_to_csv")
    /\ last_call.data_type = "metrics"
    /\ store # <<>>
WithoutId(row) == [c \in DOMAIN row \ {"id"} |-> row[c]]

\* The store is the store before the call and one more row for each row
\* of the CSV, in its order, with its day, its name and its value.
StoreGrewByTheCsv ==
    LET before == last_call.store
        rows == last_call.csv.rows
    IN  /\ Len(store) = Len(before) + Len(rows)
        /\ SubSeq(store, 1, Len(before)) = before
        /\ \A k \in DOMAIN rows :
              /\ store[Len(before) + k].date = rows[k].date.day
              /\ store[Len(before) + k].metric_name = rows[k].metric_name
              /\ store[Len(before) + k].value = rows[k].value
        /\ result.message.n = Len(rows)

\* The file holds every stored row, without its id, and the store is as before.
ExportWroteTheStore ==
    /\ "id" \notin export_file.columns
    /\ export_file.rows = [k \in DOMAIN store |-> WithoutId(store[k])]
    /\ store = last_call.store

DataManagerCalled == Called("import_from_csv") \/ Called("export_to_csv")
\* What makes the call fail: a column the CSV lacks, a data type the
\* manager does not know, or an exception while reading or saving.
MissingColumn ==
    /\ Called("import_from_csv")
    /\ ~({"date", "metric_name", "value"} \subseteq last_call.csv.columns)
UnknownDataType == last_call.data_type # "metrics"
ExceptionRaised ==
    \/ last_call.fault # "none"
    \/ /\ Called("import_from_csv")
       /\ ~MissingColumn
       /\ \E k \in DOMAIN last_call.csv.rows :
             \/ last_call.csv.rows[k].date = NotADate
             \/ IsNaN(last_call.csv.rows[k].value)

\* C24: import_from_csv and export_to_csv never raise: on a missing
\* required column, an unknown data_type, or any exception while reading or
\* saving, they return {success: False, message}, and the store then holds
\* exactly the committed rows it held before the call; an import is never
\* partial.
C24_FailuresReturnAndKeepTheStore ==
    DataManagerCalled =>
       /\ DOMAIN result = {"success", "message"}
       /\ MissingColumn \/ UnknownDataType \/ ExceptionRaised =>
             /\ ~result.success
             /\ store = last_call.store
       /\ ~result.success => store = last_call.store

\* An import failed on its second row, after its first row was inserted
\* into a table that held rows, and the table is as before.
C24_Witness ==
    /\ Called("import_from_csv")
    /\ last_call.data_type = "metrics"
    /\ last_call.fault = "none"
    /\ ~MissingColumn
    /\ Len(last_call.csv.rows) = 2
    /\ ~IsNaN(last_call.csv.rows[1].value)
    /\ IsNaN(last_call.csv.rows[2].value)
    /\ \A k \in DOMAIN last_call.csv.rows : last_call.csv.rows[k].date # NotADate
    /\ ~result.success
    /\ store # <<>>
    /\ store = last_call.store

-----------------------------------------------------------------------------
(* C25.  The day labels of the windows.                                    *)

DayOfAnchor == start_date \div TicksPerDay
AnchorAtMidnight == start_date % TicksPerDay = 0

\* The four labels are the days the claim names, so that each range spans
\* its requested number of days and the ranges are adjacent.
LabelsAreInclusiveDays ==
    /\ result.baseline_window.start = DayOfAnchor - baseline_days
    /\ result.baseline_window.end = DayOfAnchor - 1
    /\ result.intervention_window.start = DayOfAnchor
    /\ result.intervention_window.end = DayOfAnchor + intervention_days - 1
    /\ result.baseline_window.end - result.baseline_window.start + 1 = baseline_days
    /\ result.intervention_window.end - result.intervention_window.start + 1
          = intervention_days
    /\ result.baseline_window.end + 1 = result.intervention_window.start

\* The calendar day of sample k is one of the days w.start .. w.end + late.
WithinLabels(k, w, late) ==
    /\ w.start <= CalendarDay(k)
    /\ CalendarDay(k) <= w.end + late

\* C25: in every full result the reported window dates are inclusive day
\* labels (baseline start_date - baseline_days .. start_date - 1 day,
\* intervention start_date .. start_date + intervention_days - 1 day), each
\* range spans its requested number of days, the baseline range ends the day
\* before the intervention range starts, and every counted sample's
\* calendar day lies inside its window's labelled range.
C25_CountedSamplesInsideLabels ==
    IsFull =>
       /\ LabelsAreInclusiveDays
       /\ \A k \in BaselineSamples : WithinLabels(k, result.baseline_window, 0)
       /\ \A k \in InterventionSamples : WithinLabels(k, result.intervention_window, 0)

\* C25, amended: the labels are as stated; a counted sample's calendar day
\* lies inside its window's labelled range when start_date is at midnight,
\* and inside it or on the day after its end when start_date carries a time
\* of day.
C25_CountedSamplesInsideLabelsAtMidnight ==
    IsFull =>
       /\ LabelsAreInclusiveDays
       /\ \A k \in BaselineSamples :
             WithinLabels(k, result.baseline_window, IF AnchorAtMidnight THEN 0 ELSE 1)
       /\ \A k \in InterventionSamples :
             WithinLabels(k, result.intervention_window, IF AnchorAtMidnight THEN 0 ELSE 1)

\* A full result whose anchor is at midnight, with a sample on the first
\* and on the last labelled day of the baseline range.
C25_Witness ==
    /\ IsFull
    /\ AnchorAtMidnight
    /\ \E k \in BaselineSamples : CalendarDay(k) = result.baseline_window.start
    /\ \E k \in BaselineSamples : CalendarDay(k) = result.baseline_window.end
    /\ \E k \in InterventionSamples : CalendarDay(k) = result.intervention_window.end

\* A baseline sample on the anchor's own day, after the labelled range.
SampleAfterItsLabels ==
    /\ IsFull
    /\ ~AnchorAtMidnight
    /\ \E k \in BaselineSamples : CalendarDay(k) = result.baseline_window.end + 1

-----------------------------------------------------------------------------
(* C26.  A frame shared by several metrics (specification SpecMulti).      *)

KeyOf(k) == metrics_map[k].key
\* The k-th frame is a series of dated values that names its rows.
NamesItsRows(k) == {"date", "value", "metric_name"} \subseteq metrics_map[k].df.columns
MatchingRows(k) ==
    SelectSeq(metrics_map[k].df.rows, LAMBDA r : r.metric_name = KeyOf(k))
\* The rows of the k-th frame that carry its key, as a frame without names.
MatchingRowsAlone(k) ==
    [columns |-> metrics_map[k].df.columns \ {"metric_name"},
     rows |-> [j \in DOMAIN MatchingRows(k) |->
                  [date |-> MatchingRows(k)[j].date, value |-> MatchingRows(k)[j].value]]]
SeveralNames(k) ==
    Cardinality({metrics_map[k].df.rows[j].metric_name :
                    j \in DOMAIN metrics_map[k].df.rows}) > 1
MixedMetricsText == "AnalysisEngine expects a single metric."

\* C26: in analyze_multiple_metrics a frame that has a metric_name column
\* is reduced to the rows whose metric_name equals its map key before
\* analysis: a frame mixing several metric identities never produces a
\* mixed-metric error under that key, its entry is the analysis, or the
\* insufficient-data error shape, of the matching rows only, and a frame
\* with no matching rows yields the error shape with both counts 0.
C26_SharedFrameReducedToItsKey ==
    MultiReturned =>
       \A k \in DOMAIN metrics_map :
          NamesItsRows(k) =>
             LET e == ReturnedEntry(KeyOf(k))
                 alone == Outcomes(MatchingRowsAlone(k), start_date, baseline_days,
                                   intervention_days)[scipy_build]
             IN  /\ ~IsFailureEntry(e)
                 /\ alone.pc = "return"
                 /\ e = alone.result
                 /\ IsFullEntry(e) \/ IsErrorShapeEntry(e)
                 /\ MatchingRows(k) = <<>> =>
                       /\ IsErrorShapeEntry(e)
                       /\ e.baseline_count = 0
                       /\ e.intervention_count = 0

\* One frame mixing two identities, under a key it holds rows of and under
\* a key it holds no rows of.
C26_Witness ==
    /\ MultiReturned
    /\ \E j \in DOMAIN metrics_map, k \in DOMAIN metrics_map :
          /\ metrics_map[j].df = metrics_map[k].df
          /\ NamesItsRows(j)
          /\ SeveralNames(j)
          /\ MatchingRows(j) # <<>>
          /\ IsFullEntry(ReturnedEntry(KeyOf(j)))
          /\ MatchingRows(k) = <<>>
          /\ IsErrorShapeEntry(ReturnedEntry(KeyOf(k)))

-----------------------------------------------------------------------------
(* C27.  load_settings on a manager that holds unsaved values.             *)

\* The last call was a load_settings that read and parsed the file.
LoadedFromFile == call # None /\ call.op = "load_settings" /\ call.read
FileOrDefault(k) ==
    IF k \in DOMAIN settings_file THEN settings_file[k].number ELSE defaults[k]

\* C27: after load_settings reads an existing valid settings file, each of
\* the four keys holds the file's value if the file contains that key and
\* the default value otherwise, regardless of any earlier set() calls that
\* were not saved; after any sequence of set, load_settings and
\* save_settings the settings hold exactly the four default keys.
C27_LoadGivesFileOverDefaults ==
    /\ DOMAIN settings = DOMAIN defaults
    /\ LoadedFromFile => \A k \in DOMAIN defaults : settings[k] = FileOrDefault(k)

\* What holds of the code: the four keys, the file's value for each key the
\* file names, and for each other key the value held before the load.
LoadKeepsWhatTheFileLacks ==
    /\ DOMAIN settings = DOMAIN defaults
    /\ LoadedFromFile =>
          \A k \in DOMAIN defaults \cap DOMAIN settings_file :
             settings[k] = settings_file[k].number

\* A load read a file that lacks a key, and the key holds neither the
\* file's value nor its default.
UnsavedSetSurvivesLoad ==
    /\ LoadedFromFile
    /\ \E k \in DOMAIN defaults \ DOMAIN settings_file : settings[k] # defaults[k]

-----------------------------------------------------------------------------
(* The interventions list.                                                 *)

Handled(op) == gui_call # None /\ gui_call.op = op

EndsBeforeItStarts(i) == i.end_date # None /\ Earlier(i.end_date, i.start_date)

\* Every stored intervention has a name and does not end before it starts.
StoredInterventionsAreValid ==
    \A k \in DOMAIN interventions :
       /\ interventions[k].name # ""
       /\ ~EndsBeforeItStarts(interventions[k])

\* A rejected add or edit stores nothing.
RejectedStoresNothing ==
    /\ gui_call'.op \in {"add_intervention", "edit_selected_intervention"}
    /\ gui_call'.rejected
    => interventions' = interventions

\* The row a handler acts on, the selected one, has an end_date.
SelectedIsClosed ==
    /\ selected # {}
    /\ \A k \in DOMAIN interventions :
          interventions[k].id \in selected => interventions[k].end_date # None

\* Closing an intervention that has an end_date leaves it unchanged.
ClosingAClosedChangesNothing ==
    gui_call'.op = "close_selected_intervention" /\ SelectedIsClosed
    => interventions' = interventions

\* C28: after any sequence of add_intervention, edit_selected_intervention and
\* close_selected_intervention every stored intervention has a non-empty name
\* and, if its end_date is set, an end_date on or after its start_date; a
\* rejected add or edit stores nothing; closing an intervention that has an
\* end_date leaves it unchanged.
C28_StoredInterventionsAreValid ==
    /\ []StoredInterventionsAreValid
    /\ [][RejectedStoresNothing /\ ClosingAClosedChangesNothing]_vars

\* What holds of the stored interventions: the names are not empty, and an
\* end_date before the start_date is a day that has come, written by the
\* close handler for an intervention that starts later; the rest as stated.
StoredInterventionsAreValidUnlessClosedEarly ==
    /\ [](\A k \in DOMAIN interventions :
            /\ interventions[k].name # ""
            /\ EndsBeforeItStarts(interventions[k])
               => ~Earlier(today, interventions[k].end_date))
    /\ [][RejectedStoresNothing /\ ClosingAClosedChangesNothing]_vars

\* An intervention that starts after today was closed.
ClosedBeforeItStarted ==
    /\ Handled("close_selected_intervention")
    /\ \E k \in DOMAIN interventions :
          /\ interventions[k].end_date = today
          /\ Earlier(today, interventions[k].start_date)

\* The close handler ran on a closed intervention, and a rejected edit ran.
ClosedTwice ==
    /\ Handled("close_selected_intervention")
    /\ SelectedIsClosed

-----------------------------------------------------------------------------
(* The Analysis tab of the workspace.                                      *)

ExportEnabled == analysis_tab.export_html_button
SaveEnabled == analysis_tab.save_button
ShowsErrorShape == "error" \in DOMAIN analysis_tab.current_results

\* C29: whenever the Export HTML Report button is enabled, exporting succeeds:
\* generate_html_report returns True for current_results; a run_analysis that
\* ends in the insufficient-data error shape leaves no export enabled that
\* then fails.
C29_EnabledExportSucceeds ==
    ExportEnabled => generate_html_report_of(analysis_tab.current_results).returned

\* What holds of an enabled export: it fails on the error shape, it succeeds
\* on the full shape when the file can be written.
EnabledExportSucceedsOnFullShapeOnly ==
    /\ ExportEnabled =>
          (generate_html_report_of(analysis_tab.current_results).returned
              <=> ~ShowsErrorShape)
    /\ Handled("export_html_report") =>
          (gui_call.success <=> gui_call.writable /\ ~ShowsErrorShape)

\* The export of an insufficient-data result was clicked and failed, the
\* file being writable.
ErrorShapeExportFailed ==
    /\ Handled("export_html_report")
    /\ gui_call.writable
    /\ ~gui_call.success
    /\ ShowsErrorShape

\* The last handler was on_intervention_selected(id), and what it has to leave.
TabsFollowSelection ==
    Handled("on_intervention_selected") =>
       /\ tabs["Metric Setup"]
       /\ \A t \in {"Logging", "Events", "Analysis"} :
             tabs[t] <=> gui_call.intervention_id # None
       /\ analysis_tab.current_intervention_id = gui_call.intervention_id
       /\ analysis_tab.results_text = Cleared
       /\ ~SaveEnabled
       /\ ~ExportEnabled

\* The results a completed run_analysis of intervention id leaves, for every
\* metric logged for it and every setting of the spin boxes.
ResultsComputedFor(id) ==
    IF id = None THEN {}
    ELSE LET intervention == interventions[CHOOSE k \in RowOf(interventions, id) : TRUE]
             logged == LoggedMetrics(metric_entries, id)
         IN  {Labelled(Outcomes(EntriesFrame(metric_entries, id, logged[m]),
                                to_datetime(intervention.start_date),
                                b_days, i_days)[scipy].result,
                       intervention.name, logged[m]) :
                 m \in DOMAIN logged, b_days \in SpinValues, i_days \in SpinValues,
                 scipy \in ScipyBuilds}

\* Enabled buttons belong to a result computed for the selected intervention.
EnabledButtonsReferToSelection ==
    SaveEnabled \/ ExportEnabled =>
       /\ selected = {analysis_tab.current_intervention_id}
       /\ analysis_tab.current_results
             \in ResultsComputedFor(analysis_tab.current_intervention_id)

\* A button becomes enabled only in a run_analysis for the selection that
\* got through to its end.
ButtonsEnabledByRunOnly ==
    /\ analysis_tab'.save_button \/ analysis_tab'.export_html_button
    /\ ~(SaveEnabled \/ ExportEnabled)
    => /\ gui_call'.op = "run_analysis"
       /\ gui_call'.intervention_id = analysis_tab'.current_intervention_id
       /\ selected' = {gui_call'.intervention_id}
       /\ analysis_tab'.current_results
             \in ResultsComputedFor(gui_call'.intervention_id)
       /\ analysis_tab'.results_text # Cleared

\* C30: after every on_intervention_selected(id) the Metric Setup tab is
\* enabled, the Logging, Events and Analysis tabs are enabled iff id is not
\* None, the results text is cleared and the Save and Export buttons are
\* disabled; they stay disabled until a run_analysis for the selected
\* intervention completes without exception, so that enabled buttons always
\* refer to a result computed for the current selection.
C30_ButtonsFollowTheSelection ==
    /\ [](TabsFollowSelection /\ EnabledButtonsReferToSelection)
    /\ [][ButtonsEnabledByRunOnly]_vars

\* A run for the selection enabled the buttons while the widget still held
\* the results of the intervention selected before.
C30_Witness ==
    /\ Handled("run_analysis")
    /\ SaveEnabled
    /\ ExportEnabled
    /\ ~gui_call.before.export_html_button
    /\ gui_call.before.current_results # None
    /\ gui_call.before.current_results.intervention
          # analysis_tab.current_results.intervention

=============================================================================
